---- MODULE Spec2Model ----
(***************************************************************************)
(* Slot-filling core of the Jarvis assistant:                              *)
(*   agents/intent_classifier.py  (Intent, IntentClassifier)               *)
(*   agents/state_manager.py      (TaskState, StateManager)                *)
(*   agents/tool_validator.py     (ValidationResult, ToolValidator)        *)
(*   main.py                      (write, the interaction loop)            *)
(* Utterances and slot values are strings; a Python dict is a sequence of  *)
(* <<key, value>> pairs in insertion order.                                *)
(***************************************************************************)
EXTENDS Integers, Sequences, FiniteSets, TLC

VARIABLES active_tasks, session_context, now, call, result, heard, classified,
          conversation_mode, last_interaction_time, clock

vars == <<active_tasks, session_context, now, call, result, heard, classified,
          conversation_mode, last_interaction_time, clock>>

\* the variables of write(): conversation_mode, last_interaction_time and
\* the reading of time.time(), in seconds
loop == <<conversation_mode, last_interaction_time, clock>>

(***************************************************************************)
(* Bounds of the model.                                                    *)
(***************************************************************************)
\* Spec creates a task while the store holds fewer than MaxTasks records
MaxTasks == 2
\* SpecAll creates a task while the store holds fewer than MaxTasksAll records
MaxTasksAll == 1
\* the wall clock (datetime.now()) is explored over 0..MaxNow
MaxNow == 2
\* clock readings per calendar day
TicksPerDay == 1
\* the interaction loop is explored while time.time() reads at most MaxClock
MaxClock == 32

(***************************************************************************)
(* Characters and strings (str methods and the re syntax used by the code) *)
(***************************************************************************)
Char(s, i) == IF i >= 1 /\ i <= Len(s) THEN SubSeq(s, i, i) ELSE ""

From(s, i) == SubSeq(s, i, Len(s))

Digits == <<"0", "1", "2", "3", "4", "5", "6", "7", "8", "9">>

UpperCase == <<"A", "B", "C", "D", "E", "F", "G", "H", "I", "J", "K", "L", "M",
               "N", "O", "P", "Q", "R", "S", "T", "U", "V", "W", "X", "Y", "Z">>

LowerCase == <<"a", "b", "c", "d", "e", "f", "g", "h", "i", "j", "k", "l", "m",
               "n", "o", "p", "q", "r", "s", "t", "u", "v", "w", "x", "y", "z">>

Range(f) == {f[i] : i \in DOMAIN f}

\* \d
IsDigit(c) == c \in Range(Digits)

\* \w
IsWord(c) == c \in Range(Digits) \cup Range(UpperCase) \cup Range(LowerCase) \cup {"_"}

\* \s
IsSpace(c) == c \in {" ", "\t"}

\* [\w\.-]
IsAddr(c) == IsWord(c) \/ c \in {".", "-"}

\* str.lower() of one character
LowerChar(c) ==
  IF c \in Range(UpperCase)
    THEN LowerCase[CHOOSE i \in DOMAIN UpperCase : UpperCase[i] = c]
    ELSE c

RECURSIVE lower(_)
\* str.lower()
lower(s) == IF Len(s) = 0 THEN "" ELSE LowerChar(Char(s, 1)) \o lower(From(s, 2))

\* s[p:p+len(lit)] == lit, p a 1-based index
LitAt(s, p, lit) == p >= 1 /\ p + Len(lit) - 1 <= Len(s) /\ SubSeq(s, p, p + Len(lit) - 1) = lit

\* lit in s
Contains(s, lit) == \E p \in 1..Len(s) : LitAt(s, p, lit)

\* \b in front of the character at index p (p = Len(s)+1 is the end of s)
Boundary(s, p) == IsWord(Char(s, p - 1)) # IsWord(Char(s, p))

\* $ in front of index p
AtEnd(s, p) == p = Len(s) + 1

RECURSIVE RunLen(_, _, _)
\* length of the longest run of characters of class cls starting at index p:
\* what a greedy cls* consumes there; cls is "d", "w", "s" or "a"
InClass(c, cls) ==
  CASE cls = "d" -> IsDigit(c)
    [] cls = "w" -> IsWord(c)
    [] cls = "s" -> IsSpace(c)
    [] cls = "a" -> IsAddr(c)
RunLen(s, p, cls) ==
  IF p <= Len(s) /\ InClass(Char(s, p), cls) THEN 1 + RunLen(s, p + 1, cls) ELSE 0

RECURSIVE lstrip(_)
lstrip(s) == IF Len(s) > 0 /\ IsSpace(Char(s, 1)) THEN lstrip(From(s, 2)) ELSE s

RECURSIVE rstrip(_)
rstrip(s) ==
  IF Len(s) > 0 /\ IsSpace(Char(s, Len(s))) THEN rstrip(SubSeq(s, 1, Len(s) - 1)) ELSE s

\* str.strip()
strip(s) == rstrip(lstrip(s))

\* int(s) for a string of one or two digits
DigitVal(c) == (CHOOSE i \in DOMAIN Digits : Digits[i] = c) - 1

RECURSIVE int(_)
int(s) == IF Len(s) = 0 THEN 0 ELSE 10 * int(SubSeq(s, 1, Len(s) - 1)) + DigitVal(Char(s, Len(s)))

RECURSIVE str(_)
\* str(n) for n >= 0
str(n) == IF n < 10 THEN Digits[n + 1] ELSE str(n \div 10) \o Digits[(n % 10) + 1]

\* s.zfill(2)
zfill2(s) == IF Len(s) < 2 THEN (IF Len(s) = 0 THEN "00" ELSE "0" \o s) ELSE s

\* the least element of a non-empty set of integers
Min(S) == CHOOSE x \in S : \A y \in S : x <= y

(***************************************************************************)
(* Python dict: a sequence of <<key, value>> pairs, keys distinct          *)
(***************************************************************************)
EmptyDict == <<>>

Keys(d) == {d[i][1] : i \in DOMAIN d}

Has(d, k) == k \in Keys(d)

Get(d, k) == d[CHOOSE i \in DOMAIN d : d[i][1] = k][2]

\* d.setdefault(k, v): a value already stored under k is kept
Put_KeepsOld(d, k, v) == IF Has(d, k) THEN d ELSE Append(d, <<k, v>>)

\* d[k] = v
Put(d, k, v) ==
  IF Has(d, k)
    THEN [i \in DOMAIN d |-> IF d[i][1] = k THEN <<k, v>> ELSE d[i]]
    ELSE Append(d, <<k, v>>)

RECURSIVE Update(_, _)
\* d.update(e), also {**d, **e}
Update(d, e) == IF e = <<>> THEN d ELSE Update(Put(d, e[1][1], e[1][2]), Tail(e))

\* dict equality ignores the order of insertion
AsMap(d) == [k \in Keys(d) |-> Get(d, k)]

\* "k in d and d[k]": the key is present with a non-empty value
Truthy(d, k) == Has(d, k) /\ Get(d, k) # ""

(***************************************************************************)
(* intent_classifier.py                                                    *)
(***************************************************************************)
\* class Intent(Enum): <<member, value>> in definition order
Intent ==
  << <<"CALENDAR_CREATE", "calendar_create">>, <<"CALENDAR_CHECK", "calendar_check">>,
     <<"CALENDAR_SEARCH", "calendar_search">>, <<"EMAIL_SEND", "email_send">>,
     <<"EMAIL_READ", "email_read">>, <<"WEATHER", "weather">>,
     <<"APP_LAUNCH", "app_launch">>, <<"TERMINAL", "terminal">>,
     <<"WEB_SEARCH", "web_search">>, <<"MEMORY_LOOKUP", "memory_lookup">>,
     <<"GENERAL", "general">> >>

Intents == {Intent[n][1] : n \in DOMAIN Intent}

\* intent.value
value(intent) == Intent[CHOOSE n \in DOMAIN Intent : Intent[n][1] = intent][2]

\* Intent(task_type) succeeds exactly for the value of a member
IsIntentValue(v) == \E n \in DOMAIN Intent : Intent[n][2] = v

\* Intent(task_type)
IntentOf(v) == Intent[CHOOSE n \in DOMAIN Intent : Intent[n][2] = v][1]

\* get_required_fields with a slot required for WEATHER
get_required_fields_WeatherLocation(intent) ==
  CASE intent = "CALENDAR_CREATE" -> <<"title">>
    [] intent = "EMAIL_SEND"      -> <<"to", "subject">>
    [] intent = "WEATHER"         -> <<"location">>
    [] intent = "APP_LAUNCH"      -> <<"app_name">>
    [] intent = "TERMINAL"        -> <<"command">>
    [] intent = "WEB_SEARCH"      -> <<"query">>
    [] intent = "MEMORY_LOOKUP"   -> <<"query">>
    [] intent = "CALENDAR_SEARCH" -> <<"query">>
    [] OTHER                      -> <<>>

\* get_required_fields leaving out the slots that a stored task of the intent
\* already holds
get_required_fields_Remaining(intent) ==
  LET table == CASE intent = "CALENDAR_CREATE" -> <<"title">>
                 [] intent = "EMAIL_SEND"      -> <<"to", "subject">>
                 [] intent = "APP_LAUNCH"      -> <<"app_name">>
                 [] intent = "TERMINAL"        -> <<"command">>
                 [] intent = "WEB_SEARCH"      -> <<"query">>
                 [] intent = "MEMORY_LOOKUP"   -> <<"query">>
                 [] intent = "CALENDAR_SEARCH" -> <<"query">>
                 [] OTHER                      -> <<>>
      Held(f) == \E i \in DOMAIN active_tasks :
                   /\ IsIntentValue(active_tasks[i].task_type)
                   /\ IntentOf(active_tasks[i].task_type) = intent
                   /\ Has(active_tasks[i].data, f)
  IN  SelectSeq(table, LAMBDA f : ~Held(f))

\* IntentClassifier.get_required_fields
get_required_fields(intent) ==
  CASE intent = "CALENDAR_CREATE" -> <<"title">>
    [] intent = "EMAIL_SEND"      -> <<"to", "subject">>
    [] intent = "WEATHER"         -> <<>>
    [] intent = "APP_LAUNCH"      -> <<"app_name">>
    [] intent = "TERMINAL"        -> <<"command">>
    [] intent = "WEB_SEARCH"      -> <<"query">>
    [] intent = "MEMORY_LOOKUP"   -> <<"query">>
    [] intent = "CALENDAR_CHECK"  -> <<>>
    [] intent = "CALENDAR_SEARCH" -> <<"query">>
    [] intent = "EMAIL_READ"      -> <<>>
    [] OTHER                      -> <<>>

\* the leftmost of the start indices at which a pattern matches, 0 when
\* there is none (re.search scans the start positions from left to right)
Leftmost(hits) == IF hits = {} THEN 0 ELSE Min(hits)

\* activity_patterns[0]: \b(gym|workout|meeting|lunch|dinner|appointment|call)\b
ActivityNouns == <<"gym", "workout", "meeting", "lunch", "dinner", "appointment", "call">>

NounAt(s, p, noun) == Boundary(s, p) /\ LitAt(s, p, noun) /\ Boundary(s, p + Len(noun))

ActivityMatch(s) ==
  LET Hit(p) == \E n \in DOMAIN ActivityNouns : NounAt(s, p, ActivityNouns[n])
      p == Leftmost({x \in 1..Len(s) : Hit(x)})
  IN  IF p = 0 THEN <<>>
      ELSE <<ActivityNouns[Min({n \in DOMAIN ActivityNouns : NounAt(s, p, ActivityNouns[n])})]>>

\* activity_patterns[1]: \bgoing to\s+(\w+)
GoingToMatch(s) ==
  LET Word(p) == p + 8 + RunLen(s, p + 8, "s")
      Hit(p) == /\ Boundary(s, p) /\ LitAt(s, p, "going to")
                /\ RunLen(s, p + 8, "s") >= 1
                /\ RunLen(s, Word(p), "w") >= 1
      p == Leftmost({x \in 1..Len(s) : Hit(x)})
  IN  IF p = 0 THEN <<>>
      ELSE <<SubSeq(s, Word(p), Word(p) + RunLen(s, Word(p), "w") - 1)>>

\* activity_patterns[2]:
\*   \b(schedule|create|add)\s+([^at]+?)(?:\s+at|\s+for|\s+on|$)
Verbs == <<"schedule", "create", "add">>

\* (?:\s+at|\s+for|\s+on|$) in front of index r
TitleStop(s, r) ==
  LET n == RunLen(s, r, "s")
  IN  \/ n >= 1 /\ (LitAt(s, r + n, "at") \/ LitAt(s, r + n, "for") \/ LitAt(s, r + n, "on"))
      \/ AtEnd(s, r)

\* the verb ends in front of index e; \s+ takes k characters and the lazy
\* group [^at]+? the next m
VerbTail(s, e, k, m) ==
  /\ k <= RunLen(s, e, "s")
  /\ e + k + m - 1 <= Len(s)
  /\ \A i \in (e + k)..(e + k + m - 1) : Char(s, i) \notin {"a", "t"}
  /\ TitleStop(s, e + k + m)

VerbTails(s, e) == {c \in (1..Len(s)) \X (1..Len(s)) : VerbTail(s, e, c[1], c[2])}

\* the backtracking order: the longest \s+ first, then the shortest group
FirstTail(s, e) ==
  CHOOSE c \in VerbTails(s, e) :
    \A d \in VerbTails(s, e) : c[1] > d[1] \/ (c[1] = d[1] /\ c[2] <= d[2])

VerbAt(s, p, verb) ==
  Boundary(s, p) /\ LitAt(s, p, verb) /\ VerbTails(s, p + Len(verb)) # {}

VerbMatch(s) ==
  LET Hit(p) == \E n \in DOMAIN Verbs : VerbAt(s, p, Verbs[n])
      p == Leftmost({x \in 1..Len(s) : Hit(x)})
      verb == Verbs[Min({n \in DOMAIN Verbs : VerbAt(s, p, Verbs[n])})]
      e == p + Len(verb)
      c == FirstTail(s, e)
  IN  IF p = 0 THEN <<>> ELSE <<SubSeq(s, e + c[1], e + c[1] + c[2] - 1)>>

\* the title rules without the break: every matching rule sets the title in
\* turn and the last one stays
ExtractTitle_LastWins(s) ==
  IF VerbMatch(s) # <<>> THEN <<strip(VerbMatch(s)[1])>>
  ELSE IF GoingToMatch(s) # <<>> THEN <<GoingToMatch(s)[1]>>
  ELSE IF ActivityMatch(s) # <<>> THEN ActivityMatch(s)
  ELSE <<>>

\* the title rules in the order of activity_patterns; the first match sets
\* the title and ends the loop
ExtractTitle(s) ==
  IF ActivityMatch(s) # <<>> THEN ActivityMatch(s)
  ELSE IF GoingToMatch(s) # <<>> THEN <<GoingToMatch(s)[1]>>
  ELSE IF VerbMatch(s) # <<>> THEN <<strip(VerbMatch(s)[1])>>
  ELSE <<>>

\* (am|pm) in front of index p, "" when neither
AmPmAt(s, p) == IF LitAt(s, p, "am") THEN "am" ELSE IF LitAt(s, p, "pm") THEN "pm" ELSE ""

\* time_patterns[0]: \b(\d{1,2}):(\d{2})\s*(am|pm)?\b
\* the number of hour digits of a match at p, 0 when there is none
ColonHourLen(s, p) ==
  IF IsDigit(Char(s, p)) /\ IsDigit(Char(s, p + 1)) /\ Char(s, p + 2) = ":" THEN 2
  ELSE IF IsDigit(Char(s, p)) /\ Char(s, p + 1) = ":" THEN 1
  ELSE 0

ColonTimeAt(s, p) ==
  LET h == ColonHourLen(s, p)
      r == p + h + 3
      n == RunLen(s, r, "s")
  IN  /\ Boundary(s, p)
      /\ h > 0
      /\ IsDigit(Char(s, r - 2)) /\ IsDigit(Char(s, r - 1))
      /\ \/ AmPmAt(s, r + n) # "" /\ Boundary(s, r + n + 2)
         \/ n > 0
         \/ Boundary(s, r)

\* <<hour, minute, ampm>> of the leftmost match; ampm is "" for None
ColonTimeMatch(s) ==
  LET Hit(p) == ColonTimeAt(s, p)
      p == Leftmost({x \in 1..Len(s) : Hit(x)})
      h == ColonHourLen(s, p)
      r == p + h + 3
      n == RunLen(s, r, "s")
  IN  IF p = 0 THEN <<>>
      ELSE <<SubSeq(s, p, p + h - 1), SubSeq(s, r - 2, r - 1),
             IF AmPmAt(s, r + n) # "" /\ Boundary(s, r + n + 2) THEN AmPmAt(s, r + n) ELSE "">>

\* time_patterns[1] with the am/pm marker optional: \b(\d{1,2})\s*(am|pm)?\b
HourTimeAt_BareHour(s, p) ==
  LET h == RunLen(s, p, "d")
      n == RunLen(s, p + h, "s")
  IN  /\ Boundary(s, p)
      /\ h \in {1, 2}
      /\ \/ AmPmAt(s, p + h + n) # "" /\ Boundary(s, p + h + n + 2)
         \/ n > 0
         \/ Boundary(s, p + h)

\* time_patterns[1]: \b(\d{1,2})\s*(am|pm)\b
HourTimeAt(s, p) ==
  LET h == RunLen(s, p, "d")
      n == RunLen(s, p + h, "s")
  IN  /\ Boundary(s, p)
      /\ h \in {1, 2}
      /\ AmPmAt(s, p + h + n) # "" /\ Boundary(s, p + h + n + 2)

\* <<hour, ampm>> of the leftmost match
HourTimeMatch(s) ==
  LET Hit(p) == HourTimeAt(s, p)
      p == Leftmost({x \in 1..Len(s) : Hit(x)})
      h == RunLen(s, p, "d")
      n == RunLen(s, p + h, "s")
  IN  IF p = 0 THEN <<>> ELSE <<SubSeq(s, p, p + h - 1), AmPmAt(s, p + h + n)>>

\* the am/pm adjustment adding 12 to every pm hour, 12 included
AdjustHour_NoonPm(hour, ampm) ==
  IF ampm = "pm" THEN str(int(hour) + 12)
  ELSE IF ampm = "am" /\ hour = "12" THEN "00"
  ELSE hour

\* the hour after the am/pm adjustment
AdjustHour(hour, ampm) ==
  IF ampm = "pm" /\ int(hour) < 12 THEN str(int(hour) + 12)
  ELSE IF ampm = "am" /\ hour = "12" THEN "00"
  ELSE hour

\* the time rules with time_patterns in the other order: H am/pm is tried
\* before H:MM
ExtractTime_HourFirst(s) ==
  IF HourTimeMatch(s) # <<>>
    THEN LET m == HourTimeMatch(s)
         IN  <<zfill2(AdjustHour(m[1], m[2])) \o ":00">>
  ELSE IF ColonTimeMatch(s) # <<>>
    THEN LET m == ColonTimeMatch(s)
         IN  <<zfill2(AdjustHour(m[1], m[3])) \o ":" \o m[2]>>
  ELSE <<>>

\* the time rules in the order of time_patterns; the first match sets the time
ExtractTime(s) ==
  IF ColonTimeMatch(s) # <<>>
    THEN LET m == ColonTimeMatch(s)
         IN  <<zfill2(AdjustHour(m[1], m[3])) \o ":" \o m[2]>>
  ELSE IF HourTimeMatch(s) # <<>>
    THEN LET m == HourTimeMatch(s)
         IN  <<zfill2(AdjustHour(m[1], m[2])) \o ":00">>
  ELSE <<>>

\* the calendar day of clock reading t, counted from the day of reading 0
Day(t) == t \div TicksPerDay

\* strftime("%Y-%m-%d") of calendar day d; day 0 is 2024-03-08
Strftime(d) == "2024-03-" \o zfill2(str(8 + d))

\* 'tomorrow' / 'today' in text_lower, dated from datetime.now() on day d
ExtractDate(s, d) ==
  IF Contains(s, "tomorrow") THEN <<Strftime(d + 1)>>
  ELSE IF Contains(s, "today") THEN <<Strftime(d)>>
  ELSE <<>>

\* EMAIL_SEND: [\w\.-]+@[\w\.-]+\.\w+ ; the local part starts at p, the
\* domain at g, and j characters of the domain precede its last usable dot
DomainStart(s, p) == p + RunLen(s, p, "a") + 1

DotOffsets(s, g) ==
  {j \in 1..RunLen(s, g, "a") : Char(s, g + j) = "." /\ IsWord(Char(s, g + j + 1))}

AddressAt(s, p) ==
  /\ RunLen(s, p, "a") >= 1
  /\ Char(s, DomainStart(s, p) - 1) = "@"
  /\ DotOffsets(s, DomainStart(s, p)) # {}

AddressMatch(s) ==
  LET Hit(p) == AddressAt(s, p)
      p == Leftmost({x \in 1..Len(s) : Hit(x)})
      g == DomainStart(s, p)
      j == CHOOSE x \in DotOffsets(s, g) : \A y \in DotOffsets(s, g) : y <= x
  IN  IF p = 0 THEN <<>> ELSE <<SubSeq(s, p, g + j + RunLen(s, g + j + 1, "w"))>>

\* WEB_SEARCH: search_patterns, each <prefix> (.+?)(?:\.|$)
SearchPrefixes == <<"search for ", "look up ", "find ", "google ">>

\* the lazy group (.+?) that starts at index q ends in front of the first
\* "." after its first character, or at the end of the text
LazyEnd(s, q) == Min({r \in (q + 1)..(Len(s) + 1) : Char(s, r) = "." \/ AtEnd(s, r)})

PrefixMatch(s, prefix) ==
  LET Hit(p) == LitAt(s, p, prefix) /\ p + Len(prefix) <= Len(s)
      p == Leftmost({x \in 1..Len(s) : Hit(x)})
      q == p + Len(prefix)
  IN  IF p = 0 THEN <<>> ELSE <<SubSeq(s, q, LazyEnd(s, q) - 1)>>

ExtractQuery(s) ==
  LET hits == {n \in DOMAIN SearchPrefixes : PrefixMatch(s, SearchPrefixes[n]) # <<>>}
  IN  IF hits = {} THEN <<>> ELSE <<strip(PrefixMatch(s, SearchPrefixes[Min(hits)])[1])>>

\* fields[key] = m[1] when the rule matched (m is <<>> when it did not)
Set(fields, key, m) == IF m = <<>> THEN fields ELSE Put(fields, key, m[1])

\* extract_fields passing text_lower as the command of Intent.TERMINAL
ExtractOn_LowerCommand(text, intent, d) ==
  LET text_lower == lower(text)
  IN  CASE intent = "CALENDAR_CREATE" ->
             Set(Set(Set(EmptyDict, "title", ExtractTitle(text_lower)),
                     "time", ExtractTime(text_lower)),
                 "date", ExtractDate(text_lower, d))
        [] intent = "EMAIL_SEND" ->
             IF Contains(text, "@") THEN Set(EmptyDict, "to", AddressMatch(text)) ELSE EmptyDict
        [] intent = "TERMINAL" -> Put(EmptyDict, "command", text_lower)
        [] intent = "WEB_SEARCH" -> Set(EmptyDict, "query", ExtractQuery(text_lower))
        [] OTHER -> EmptyDict

\* IntentClassifier.extract_fields, called on calendar day d
ExtractOn(text, intent, d) ==
  LET text_lower == lower(text)
  IN  CASE intent = "CALENDAR_CREATE" ->
             Set(Set(Set(EmptyDict, "title", ExtractTitle(text_lower)),
                     "time", ExtractTime(text_lower)),
                 "date", ExtractDate(text_lower, d))
        [] intent = "EMAIL_SEND" ->
             IF Contains(text, "@") THEN Set(EmptyDict, "to", AddressMatch(text)) ELSE EmptyDict
        [] intent = "TERMINAL" -> Put(EmptyDict, "command", text)
        [] intent = "WEB_SEARCH" -> Set(EmptyDict, "query", ExtractQuery(text_lower))
        [] OTHER -> EmptyDict

\* the utterances explored
Utterances ==
  {"send email to john@example.com", "subject is project update", "what's the weather",
   "gym at 5", "tomorrow at 3pm", "search for cats", ""}

\* the utterances given as terminal commands: none, a blank, lower case,
\* mixed case
TerminalUtterances == {"", " ", "ls", "List Files On Desktop"}

\* extract_fields is a function of the text, the intent and the day of the
\* call: its values over the explored inputs
Extracted ==
  [text \in Utterances \cup TerminalUtterances, intent \in Intents, d \in 0..Day(MaxNow) |->
     ExtractOn(text, intent, d)]

\* IntentClassifier.extract_fields, called at clock reading now
extract_fields(text, intent) == Extracted[text, intent, Day(now)]

(***************************************************************************)
(* IntentClassifier.patterns and classify_intent.  A rule is a sequence of *)
(* parts joined by '.*'; a part is a group of alternatives, with or        *)
(* without \b on either side.  The three rules with \s+ are matched by     *)
(* operators of their own.                                                 *)
(***************************************************************************)
\* \b(a|b|...)\b
Word(alts) == [alts |-> alts, pre |-> TRUE, post |-> TRUE]

\* \b(a|b|...) without the closing \b
Stem(alts) == [alts |-> alts, pre |-> TRUE, post |-> FALSE]

\* \d+ : one digit is enough for a search
Number == [alts |-> Range(Digits), pre |-> FALSE, post |-> FALSE]

\* a rule made of parts joined by '.*'
Gapped(parts) == [kind |-> "gapped", parts |-> parts]

\* a rule matched by an operator of its own
Shaped(kind) == [kind |-> kind, parts |-> <<>>]

\* self.patterns, in the order of the dict
patterns(intent) ==
  CASE intent = "CALENDAR_CREATE" ->
         << Gapped(<<Word({"schedule", "create", "add", "plan", "set up"}),
                     Word({"meeting", "event", "appointment", "reminder"})>>),
            Gapped(<<Word({"tomorrow", "today", "next week", "next month"}),
                     Word({"at", "@"}), Number>>),
            Gapped(<<Word({"remind me"}), Word({"about", "to"})>>),
            Gapped(<<Word({"gym", "workout", "dinner", "lunch", "meeting"}),
                     Word({"at", "@"}), Number>>),
            Gapped(<<Word({"going to"}), Stem({"gym", "meeting", "appointment"})>>),
            Gapped(<<Word({"calendar", "schedule"}), Word({"for", "at"})>>) >>
    [] intent = "CALENDAR_CHECK" ->
         << Gapped(<<Word({"check", "show", "what's", "whats"}),
                     Word({"calendar", "schedule", "events", "meetings"})>>),
            Gapped(<<Word({"what do i have", "what's on my"}), Word({"calendar", "schedule"})>>),
            Gapped(<<Word({"upcoming", "next"}), Word({"events", "meetings", "appointments"})>>),
            Gapped(<<Word({"free", "available", "busy"}),
                     Word({"today", "tomorrow", "next week"})>>) >>
    [] intent = "CALENDAR_SEARCH" ->
         << Gapped(<<Word({"find", "search", "look for"}),
                     Word({"event", "meeting", "appointment"})>>),
            Gapped(<<Word({"when was", "when is"}), Word({"meeting", "event", "appointment"})>>) >>
    [] intent = "EMAIL_SEND" ->
         << Gapped(<<Word({"send", "write", "compose"}), Word({"email", "message", "mail"})>>),
            Gapped(<<Word({"email", "mail"}), Word({"to", "about"})>>),
            Gapped(<<Word({"tell"}), Word({"via email", "by email"})>>) >>
    [] intent = "EMAIL_READ" ->
         << Gapped(<<Word({"check", "read", "show"}),
                     Word({"email", "emails", "mail", "inbox"})>>),
            Gapped(<<Word({"any new", "latest"}), Word({"email", "mail", "messages"})>>) >>
    [] intent = "WEATHER" ->
         << Gapped(<<Word({"weather", "temperature", "forecast"})>>),
            Gapped(<<Word({"how's", "what's", "whats"}), Word({"weather", "temperature"})>>),
            Gapped(<<Word({"rain", "sunny", "cloudy", "hot", "cold"}),
                     Word({"today", "tomorrow", "outside"})>>) >>
    [] intent = "APP_LAUNCH" ->
         << Gapped(<<Word({"open", "launch", "start", "run"}),
                     Word({"app", "application", "program"})>>),
            Shaped("launch_file"),
            Shaped("open_app") >>
    [] intent = "TERMINAL" ->
         << Gapped(<<Word({"run", "execute", "terminal", "command"})>>),
            Gapped(<<Word({"bash", "shell", "cmd"})>>),
            Gapped(<<Word({"git"}), Word({"status", "commit", "push", "pull"})>>),
            Gapped(<<Word({"ls", "cd", "mkdir", "rm", "cp", "mv"})>>),
            Gapped(<<Word({"npm", "pip", "docker"})>>),
            Shaped("run_word"),
            Gapped(<<Word({"ls"}), Word({"on"})>>),
            Gapped(<<Word({"ellis"})>>) >>
    [] intent = "WEB_SEARCH" ->
         << Gapped(<<Word({"search", "google", "look up", "find"}), Word({"for", "about", "on"})>>),
            Gapped(<<Word({"what is", "who is", "how to"})>>),
            Gapped(<<Word({"browse", "web", "internet"}), Word({"search", "for"})>>) >>
    [] intent = "MEMORY_LOOKUP" ->
         << Gapped(<<Word({"remember", "recall", "what did"}), Word({"say", "tell", "mention"})>>),
            Gapped(<<Word({"previous", "earlier", "before"}),
                     Word({"conversation", "discussion"})>>),
            Gapped(<<Word({"context", "history", "past"})>>) >>
    [] OTHER -> <<>>

\* the keys of self.patterns, in the order of the dict
PatternIntents ==
  <<"CALENDAR_CREATE", "CALENDAR_CHECK", "CALENDAR_SEARCH", "EMAIL_SEND", "EMAIL_READ",
    "WEATHER", "APP_LAUNCH", "TERMINAL", "WEB_SEARCH", "MEMORY_LOOKUP">>

\* an alternative of the part matches at index p
PartAt(s, part, p, a) ==
  /\ LitAt(s, p, a)
  /\ part.pre => Boundary(s, p)
  /\ part.post => Boundary(s, p + Len(a))

RECURSIVE GappedFrom(_, _, _, _)
\* parts n.. of the rule match, in this order, at or after index from
GappedFrom(s, parts, n, from) ==
  \/ n > Len(parts)
  \/ \E p \in from..Len(s) : \E a \in parts[n].alts :
       PartAt(s, parts[n], p, a) /\ GappedFrom(s, parts, n + 1, p + Len(a))

\* \.(app|exe|com)\b at index p
FileSuffixAt(s, p) ==
  /\ Char(s, p) = "."
  /\ \E e \in {"app", "exe", "com"} : LitAt(s, p + 1, e) /\ Boundary(s, p + 1 + Len(e))

\* \b(open|launch|start)\b\s+\w+\.(app|exe|com)\b
LaunchFile(s) ==
  \E p \in 1..Len(s) : \E a \in {"open", "launch", "start"} :
    /\ PartAt(s, Word({a}), p, a)
    /\ RunLen(s, p + Len(a), "s") >= 1
    /\ RunLen(s, p + Len(a) + RunLen(s, p + Len(a), "s"), "w") >= 1
    /\ FileSuffixAt(s, p + Len(a) + RunLen(s, p + Len(a), "s")
                       + RunLen(s, p + Len(a) + RunLen(s, p + Len(a), "s"), "w"))

\* \bopen\b\s+(chrome|firefox|safari|spotify|slack|discord|teams)\b
OpenApp(s) ==
  \E p \in 1..Len(s) :
    /\ PartAt(s, Word({"open"}), p, "open")
    /\ RunLen(s, p + 4, "s") >= 1
    /\ \E a \in {"chrome", "firefox", "safari", "spotify", "slack", "discord", "teams"} :
         /\ LitAt(s, p + 4 + RunLen(s, p + 4, "s"), a)
         /\ Boundary(s, p + 4 + RunLen(s, p + 4, "s") + Len(a))

\* \brun\s+\w+
RunWord(s) ==
  \E p \in 1..Len(s) :
    /\ PartAt(s, Stem({"run"}), p, "run")
    /\ RunLen(s, p + 3, "s") >= 1
    /\ IsWord(Char(s, p + 3 + RunLen(s, p + 3, "s")))

\* re.search(pattern, text_lower)
Matches(s, rule) ==
  CASE rule.kind = "gapped" -> GappedFrom(s, rule.parts, 1, 1)
    [] rule.kind = "launch_file" -> LaunchFile(s)
    [] rule.kind = "open_app" -> OpenApp(s)
    [] rule.kind = "run_word" -> RunWord(s)

\* score: the number of rules of the intent that match
Hits(s, intent) ==
  Cardinality({n \in DOMAIN patterns(intent) : Matches(s, patterns(intent)[n])})

\* score / len(patterns), and 0.0, as a fraction
Fraction(num, den) == [num |-> num, den |-> den]

\* a <= b for two fractions with positive denominators
Leq(a, b) == a.num * b.den <= b.num * a.den

\* scores[intent] = score / len(patterns) for each of the intents
Normalised(s, intents) ==
  [n \in DOMAIN intents |->
     <<intents[n], Fraction(Hits(s, intents[n]), Len(patterns(intents[n])))>>]

\* the dict scores: the intents with score > 0 in the order of self.patterns,
\* each with its normalised score
Scores(s) == Normalised(s, SelectSeq(PatternIntents, LAMBDA i : Hits(s, i) > 0))

\* max(scores.keys(), key=lambda x: scores[x]) keeping the last of several
\* maximal keys
Best_LastWins(scores) ==
  scores[CHOOSE n \in DOMAIN scores :
           /\ \A m \in DOMAIN scores : Leq(scores[m][2], scores[n][2])
           /\ \A m \in DOMAIN scores : Leq(scores[n][2], scores[m][2]) => m <= n]

\* max(scores.keys(), key=lambda x: scores[x]): the first of the maximal keys,
\* with its score
Best(scores) ==
  scores[Min({n \in DOMAIN scores : \A m \in DOMAIN scores : Leq(scores[m][2], scores[n][2])})]

\* classify_intent answering GENERAL unless half of the rules of the best
\* intent match
Chosen_NeedsHalf(scores) ==
  IF scores = <<>> \/ ~Leq(Fraction(1, 2), Best(scores)[2])
    THEN <<"GENERAL", Fraction(0, 1)>>
    ELSE Best(scores)

\* classify_intent once the scores are computed
Chosen(scores) == IF scores = <<>> THEN <<"GENERAL", Fraction(0, 1)>> ELSE Best(scores)

\* classify_intent answering GENERAL while the store holds a task
Classify_SeesStore(text) ==
  IF active_tasks # <<>> THEN <<"GENERAL", Fraction(0, 1)>> ELSE Chosen(Scores(lower(text)))

\* IntentClassifier.classify_intent as a function of the text
Classify(text) == Chosen(Scores(lower(text)))

\* the texts classified in the model: no rule matches the first two; in the
\* next three several intents share the best score (1/3 and 1/3, 2/6 and
\* 1/3, 1/4 and 2/8); in the others the best intent is alone
ClassifyUtterances ==
  {"hello there", "", "search for weather", "gym tomorrow at 5 weather",
   "check my calendar and run tests", "gym at 5 what's the weather",
   "SEND EMAIL about Weather", "Show My Calendar", "open chrome", "git status",
   "find the meeting about budget", "what did he mention"}

\* classify_intent for each text of the model
Classified == [text \in ClassifyUtterances |-> Classify(text)]

\* the number of matching rules of each intent for each text of the model
Matching == [text \in ClassifyUtterances, intent \in Range(PatternIntents) |->
               Hits(lower(text), intent)]

(***************************************************************************)
(* state_manager.py: active_tasks is the dict task_id -> TaskState in      *)
(* insertion order, each entry a record that carries its key as id         *)
(***************************************************************************)
ActiveStatus == {"pending", "in_progress"}

TerminalStatus == {"completed", "failed"}

\* TaskState(task_type=..., data=...) built at clock reading t
TaskState(id, task_type, data, t) ==
  [id |-> id, task_type |-> task_type, status |-> "pending", data |-> data,
   created_at |-> t, updated_at |-> t]

\* the ids in the store
Ids(store) == {store[i].id : i \in DOMAIN store}

Index(store, id) == CHOOSE i \in DOMAIN store : store[i].id = id

\* create_task with the initial data left out of the new TaskState
create_task_NoData(store, task_id, task_type, initial_data, t) ==
  LET task == TaskState(task_id, task_type, EmptyDict, t)
  IN  IF task_id \in Ids(store)
        THEN [store EXCEPT ![Index(store, task_id)] = task]
        ELSE Append(store, task)

\* StateManager.create_task: store[task_id] = task keeps the position of a
\* key that is already present
create_task(store, task_id, task_type, initial_data, t) ==
  LET task == TaskState(task_id, task_type, initial_data, t)
  IN  IF task_id \in Ids(store)
        THEN [store EXCEPT ![Index(store, task_id)] = task]
        ELSE Append(store, task)

\* TaskState.update assigning the new fields instead of merging them
TaskUpdate_Replaces(task, kwargs, t) ==
  [task EXCEPT !.data = kwargs, !.updated_at = t]

\* TaskState.update
TaskUpdate(task, kwargs, t) ==
  [task EXCEPT !.data = Update(task.data, kwargs), !.updated_at = t]

\* update_task refreshing the timestamp without merging the data
update_task_NoData(store, task_id, status, data, t) ==
  IF task_id \notin Ids(store) THEN store
  ELSE LET i == Index(store, task_id)
           task == IF status # "" THEN [store[i] EXCEPT !.status = status] ELSE store[i]
       IN  [store EXCEPT ![i] = TaskUpdate(task, EmptyDict, t)]

\* update_task creating the record when the id is unknown
update_task_Upsert(store, task_id, status, data, t) ==
  IF task_id \notin Ids(store)
    THEN Append(store, [TaskState(task_id, "", data, t) EXCEPT !.status = status])
  ELSE LET i == Index(store, task_id)
           task == IF status # "" THEN [store[i] EXCEPT !.status = status] ELSE store[i]
       IN  [store EXCEPT ![i] = TaskUpdate(task, data, t)]

\* update_task leaving updated_at alone when there is nothing to merge
update_task_StaleStamp(store, task_id, status, data, t) ==
  IF task_id \notin Ids(store) THEN store
  ELSE LET i == Index(store, task_id)
           task == IF status # "" THEN [store[i] EXCEPT !.status = status] ELSE store[i]
       IN  [store EXCEPT ![i] = IF data = EmptyDict THEN task ELSE TaskUpdate(task, data, t)]

\* StateManager.update_task; status "" stands for None
update_task(store, task_id, status, data, t) ==
  IF task_id \notin Ids(store) THEN store
  ELSE LET i == Index(store, task_id)
           task == IF status # "" THEN [store[i] EXCEPT !.status = status] ELSE store[i]
       IN  [store EXCEPT ![i] = TaskUpdate(task, data, t)]

\* complete_task writing a status other than "completed"
complete_task_Typo(store, task_id) ==
  IF task_id \notin Ids(store) THEN store
  ELSE [store EXCEPT ![Index(store, task_id)].status = "complete"]

\* StateManager.complete_task with result=None
complete_task(store, task_id) ==
  IF task_id \notin Ids(store) THEN store
  ELSE [store EXCEPT ![Index(store, task_id)].status = "completed"]

\* StateManager.complete_task(task_id, result); result is None or Some(value)
complete_task_result(store, task_id, res, t) ==
  IF res = <<>> THEN complete_task(store, task_id)
  ELSE IF task_id \notin Ids(store) THEN store
  ELSE LET i == Index(store, task_id)
       IN  [store EXCEPT ![i] = TaskUpdate([store[i] EXCEPT !.status = "completed"],
                                           << <<"result", res[1]>> >>, t)]

\* the value update_task and complete_task return
Known(store, task_id) == task_id \in Ids(store)

\* get_active_tasks without the test of the type
get_active_tasks_AnyType(store, task_type) ==
  SelectSeq(store, LAMBDA v : v.status \in ActiveStatus)

\* get_active_tasks without the test of the status
get_active_tasks_AnyStatus(store, task_type) ==
  IF task_type # ""
    THEN SelectSeq(store, LAMBDA v : v.task_type = task_type)
    ELSE store

\* StateManager.get_active_tasks; task_type "" stands for None
get_active_tasks(store, task_type) ==
  IF task_type # ""
    THEN SelectSeq(store, LAMBDA v : v.task_type = task_type /\ v.status \in ActiveStatus)
    ELSE SelectSeq(store, LAMBDA v : v.status \in ActiveStatus)

\* clear_completed_tasks removing the completed tasks only
clear_completed_tasks_KeepsFailed(store) == SelectSeq(store, LAMBDA v : v.status # "completed")

\* StateManager.clear_completed_tasks
clear_completed_tasks(store) == SelectSeq(store, LAMBDA v : v.status \notin TerminalStatus)

(***************************************************************************)
(* tool_validator.py                                                       *)
(***************************************************************************)
None == <<>>

Some(x) == <<x>>

\* ValidationResult.__init__
ValidationResult(is_valid, missing_fields, extracted_fields, clarification) ==
  [kind |-> "ValidationResult", is_valid |-> is_valid, missing_fields |-> missing_fields,
   extracted_fields |-> extracted_fields, clarification |-> clarification]

\* the other outcomes of a call: None returned, an exception raised
NoResult(kind) ==
  [kind |-> kind, is_valid |-> FALSE, missing_fields |-> <<>>,
   extracted_fields |-> EmptyDict, clarification |-> None]

\* ToolValidator.clarification_templates
clarification_templates(intent) ==
  CASE intent = "CALENDAR_CREATE" ->
         << <<"title", "What should I call this event?">>,
            <<"date", "What date is this for? (e.g., tomorrow, today, 2024-03-08)">>,
            <<"time", "What time should this be scheduled for? (e.g., 3:00 PM, 15:00)">> >>
    [] intent = "EMAIL_SEND" ->
         << <<"to", "Who should I send this email to?">>,
            <<"subject", "What should the subject line be?">>,
            <<"content", "What should the email say?">> >>
    [] intent = "WEB_SEARCH" -> << <<"query", "What would you like me to search for?">> >>
    [] intent = "APP_LAUNCH" -> << <<"app_name", "Which application would you like me to open?">> >>
    [] intent = "TERMINAL" -> << <<"command", "What command should I run?">> >>
    [] OTHER -> EmptyDict

RECURSIVE Join(_, _)
\* sep.join(parts)
Join(sep, parts) ==
  IF parts = <<>> THEN ""
  ELSE IF Len(parts) = 1 THEN parts[1]
  ELSE parts[1] \o sep \o Join(sep, Tail(parts))

\* _generate_clarification listing the known fields whatever the number of
\* missing fields
generate_clarification_AlwaysContext(intent, missing_fields, extracted_fields) ==
  LET templates == clarification_templates(intent)
      context_parts == [i \in DOMAIN extracted_fields |->
                          extracted_fields[i][1] \o ": " \o extracted_fields[i][2]]
      field_questions == [i \in DOMAIN missing_fields |->
                            IF Has(templates, missing_fields[i])
                              THEN Get(templates, missing_fields[i])
                              ELSE "What is the " \o missing_fields[i] \o "?"]
      base_message == IF Len(missing_fields) = 1
                        THEN IF Has(templates, missing_fields[1])
                               THEN Get(templates, missing_fields[1])
                               ELSE "I need to know the " \o missing_fields[1] \o "."
                        ELSE "I need a bit more information: " \o Join(" And ", field_questions)
  IN  IF extracted_fields # EmptyDict
        THEN base_message \o " " \o "I have: " \o Join(", ", context_parts)
        ELSE base_message

\* ToolValidator._generate_clarification
generate_clarification(intent, missing_fields, extracted_fields) ==
  LET templates == clarification_templates(intent)
  IN  IF Len(missing_fields) = 1
        THEN LET field == missing_fields[1]
                 base_message == IF Has(templates, field) THEN Get(templates, field)
                                 ELSE "I need to know the " \o field \o "."
                 context_parts == [i \in DOMAIN extracted_fields |->
                                     extracted_fields[i][1] \o ": " \o extracted_fields[i][2]]
             IN  IF extracted_fields # EmptyDict
                   THEN base_message \o " " \o "I have: " \o Join(", ", context_parts)
                   ELSE base_message
        ELSE LET field_questions == [i \in DOMAIN missing_fields |->
                                       IF Has(templates, missing_fields[i])
                                         THEN Get(templates, missing_fields[i])
                                         ELSE "What is the " \o missing_fields[i] \o "?"]
             IN  "I need a bit more information: " \o Join(" And ", field_questions)

\* the test "field not in fields" alone, without "or not fields[field]"
Missing_AbsentOnly(required_fields, fields) ==
  SelectSeq(required_fields, LAMBDA f : ~Has(fields, f))

\* the required fields that have no non-empty value in fields
Missing(required_fields, fields) == SelectSeq(required_fields, LAMBDA f : ~Truthy(fields, f))

\* validate_and_extract without the loop over active_tasks
Backfill_Skipped(tasks, st) == st

RECURSIVE Backfill(_, _)
\* validate_and_extract, the loop over active_tasks: every field still
\* missing is taken from the task that has a non-empty value for it
Backfill(tasks, st) ==
  IF tasks = <<>> THEN st
  ELSE LET task == Head(tasks)
           found == SelectSeq(st.missing_fields, LAMBDA f : Truthy(task.data, f))
           taken == [i \in DOMAIN found |-> <<found[i], Get(task.data, found[i])>>]
       IN  Backfill(Tail(tasks),
                    [extracted_fields |-> Update(st.extracted_fields, taken),
                     missing_fields |-> Missing(st.missing_fields, task.data)])

\* validate_and_extract before the loop: the extracted fields and the
\* required fields that are not among them
Unfilled(required_fields, extracted_fields) ==
  [extracted_fields |-> extracted_fields,
   missing_fields |-> Missing(required_fields, extracted_fields)]

\* validate_and_extract up to the test of missing_fields
Checked(store, user_input, intent) ==
  Backfill(get_active_tasks(store, value(intent)),
           Unfilled(get_required_fields(intent), extract_fields(user_input, intent)))

\* the id numbered by the active tasks instead of all the records
NewTaskId_ActiveCount(store, intent) ==
  value(intent) \o "_" \o str(Len(get_active_tasks(store, "")))

\* f"{intent.value}_{len(state_manager.active_tasks)}"
NewTaskId(store, intent) == value(intent) \o "_" \o str(Len(store))

\* the branch on missing_fields merging the fields into the active task also
\* when nothing is missing
Decide_MergesWhenValid(store, intent, t, st, active) ==
  IF st.missing_fields # <<>>
    THEN [store |->
            IF active = <<>>
              THEN create_task(store, NewTaskId(store, intent), value(intent),
                               st.extracted_fields, t)
              ELSE update_task(store, active[1].id, "", st.extracted_fields, t),
          result |->
            ValidationResult(FALSE, st.missing_fields, st.extracted_fields,
              Some(generate_clarification(intent, st.missing_fields, st.extracted_fields)))]
    ELSE [store |-> IF active = <<>> THEN store
                    ELSE update_task(store, active[1].id, "", st.extracted_fields, t),
          result |-> ValidationResult(TRUE, <<>>, st.extracted_fields, None)]

\* the branch on missing_fields creating a task whether or not one of the
\* type is active
Decide_AlwaysCreates(store, intent, t, st, active) ==
  IF st.missing_fields # <<>>
    THEN [store |-> create_task(store, NewTaskId(store, intent), value(intent),
                                st.extracted_fields, t),
          result |->
            ValidationResult(FALSE, st.missing_fields, st.extracted_fields,
              Some(generate_clarification(intent, st.missing_fields, st.extracted_fields)))]
    ELSE [store |-> store,
          result |-> ValidationResult(TRUE, <<>>, st.extracted_fields, None)]

\* validate_and_extract from the test of missing_fields on: st holds the
\* extracted and the missing fields, active the active tasks of the type
Decide(store, intent, t, st, active) ==
  IF st.missing_fields # <<>>
    THEN [store |->
            IF active = <<>>
              THEN create_task(store, NewTaskId(store, intent), value(intent),
                               st.extracted_fields, t)
              ELSE update_task(store, active[1].id, "", st.extracted_fields, t),
          result |->
            ValidationResult(FALSE, st.missing_fields, st.extracted_fields,
              Some(generate_clarification(intent, st.missing_fields, st.extracted_fields)))]
    ELSE [store |-> store,
          result |-> ValidationResult(TRUE, <<>>, st.extracted_fields, None)]

\* ToolValidator.validate_and_extract at clock reading t: the store it
\* leaves and the value it returns
Validate(store, user_input, intent, t) ==
  Decide(store, intent, t, Checked(store, user_input, intent),
         get_active_tasks(store, value(intent)))

\* dataclass equality of two TaskState objects
TaskEq(a, b) ==
  /\ a.task_type = b.task_type /\ a.status = b.status /\ AsMap(a.data) = AsMap(b.data)
  /\ a.created_at = b.created_at /\ a.updated_at = b.updated_at

\* min instead of max: the task created first
RecentTask_Oldest(active) ==
  active[Min({i \in DOMAIN active : \A j \in DOMAIN active : active[i].created_at <= active[j].created_at})]

\* max(active_tasks.values(), key=lambda t: t.created_at): the first task in
\* iteration order among those created last
RecentTask(active) ==
  active[Min({i \in DOMAIN active : \A j \in DOMAIN active : active[j].created_at <= active[i].created_at})]

\* the key of the first task equal to recent_task
RecentTaskId(active) ==
  active[Min({i \in DOMAIN active : TaskEq(active[i], RecentTask(active))})].id

\* complete_task_with_response giving up a task that is still incomplete
Settle_MarksFailed(store, task_id, intent, t, new_fields, combined_fields, missing_fields) ==
  IF missing_fields # <<>>
    THEN [store |-> update_task(store, task_id, "failed", new_fields, t),
          result |-> ValidationResult(FALSE, missing_fields, combined_fields,
                       Some(generate_clarification(intent, missing_fields, combined_fields)))]
    ELSE [store |-> complete_task(update_task(store, task_id, "", new_fields, t), task_id),
          result |-> ValidationResult(TRUE, <<>>, combined_fields, None)]

\* complete_task_with_response from the test of missing_fields on
Settle(store, task_id, intent, t, new_fields, combined_fields, missing_fields) ==
  IF missing_fields # <<>>
    THEN [store |-> update_task(store, task_id, "", new_fields, t),
          result |-> ValidationResult(FALSE, missing_fields, combined_fields,
                       Some(generate_clarification(intent, missing_fields, combined_fields)))]
    ELSE [store |-> complete_task(update_task(store, task_id, "", new_fields, t), task_id),
          result |-> ValidationResult(TRUE, <<>>, combined_fields, None)]

\* complete_task_with_response once the fields of the response are extracted
Combine(store, recent_task, task_id, intent, t, new_fields) ==
  Settle(store, task_id, intent, t, new_fields, Update(recent_task.data, new_fields),
         Missing(get_required_fields(intent), Update(recent_task.data, new_fields)))

\* complete_task_with_response returning None for a task whose type is not
\* the value of an Intent
Respond_SkipsUnknown(store, user_response, t, recent_task, task_id) ==
  IF task_id = "" \/ ~IsIntentValue(recent_task.task_type)
    THEN [store |-> store, result |-> NoResult("None")]
  ELSE Combine(store, recent_task, task_id, IntentOf(recent_task.task_type), t,
               extract_fields(user_response, IntentOf(recent_task.task_type)))

\* complete_task_with_response once the most recent task is found
Respond(store, user_response, t, recent_task, task_id) ==
  IF task_id = "" THEN [store |-> store, result |-> NoResult("None")]
  ELSE IF ~IsIntentValue(recent_task.task_type)
    THEN [store |-> store, result |-> NoResult("ValueError")]
  ELSE Combine(store, recent_task, task_id, IntentOf(recent_task.task_type), t,
               extract_fields(user_response, IntentOf(recent_task.task_type)))

\* ToolValidator.complete_task_with_response at clock reading t: the store
\* it leaves and the value it returns
Complete(store, user_response, t) ==
  IF get_active_tasks(store, "") = <<>> THEN [store |-> store, result |-> NoResult("None")]
  ELSE Respond(store, user_response, t, RecentTask(get_active_tasks(store, "")),
               RecentTaskId(get_active_tasks(store, "")))

(***************************************************************************)
(* The state machine: the calls made on the module-level instances         *)
(* tool_validator and state_manager                                        *)
(***************************************************************************)
\* the intents and utterances explored by Spec, with several records in the
\* store and a clock that advances: two intents whose tasks can be completed
\* and one without required fields
DialogIntents == {"CALENDAR_CREATE", "WEB_SEARCH", "WEATHER"}

DialogUtterances == {"gym at 5", "tomorrow at 3pm", "search for cats"}

ContextKeys == {"user"}

ContextValues == {"sir"}

\* the call made last: the operation and the intent passed to it; heard is
\* the text passed to it ("" when it takes none) and classified the first
\* answer of classify_intent (None before it)
Call(op, intent) == [op |-> op, intent |-> intent]

\* StateManager.__init__; no call made yet
Init ==
  /\ active_tasks = <<>>
  /\ session_context = EmptyDict
  /\ now = 0
  /\ call = Call("init", "")
  /\ result = NoResult("None")
  /\ heard = ""
  /\ classified = None
  /\ conversation_mode = FALSE
  /\ last_interaction_time = None
  /\ clock = 0

\* tool_validator.validate_and_extract(user_input, intent), explored while it
\* leaves at most cap records in the store
validate_and_extract(user_input, intent, cap) ==
  \E out \in {Validate(active_tasks, user_input, intent, now)} :
    /\ Len(out.store) <= cap
    /\ active_tasks' = out.store
    /\ result' = out.result
    /\ call' = Call("validate_and_extract", intent)
    /\ heard' = user_input
    /\ UNCHANGED <<session_context, now, classified>>
    /\ UNCHANGED loop

\* tool_validator.complete_task_with_response(user_response)
complete_task_with_response(user_response) ==
  \E out \in {Complete(active_tasks, user_response, now)} :
    /\ active_tasks' = out.store
    /\ result' = out.result
    /\ call' = Call("complete_task_with_response", "")
    /\ heard' = user_response
    /\ UNCHANGED <<session_context, now, classified>>
    /\ UNCHANGED loop

\* state_manager.clear_completed_tasks()
ClearCompletedTasks ==
  /\ active_tasks' = clear_completed_tasks(active_tasks)
  /\ result' = NoResult("None")
  /\ call' = Call("clear_completed_tasks", "")
  /\ heard' = ""
  /\ UNCHANGED <<session_context, now, classified>>
  /\ UNCHANGED loop

\* state_manager.set_context(key, value)
set_context(key, val) ==
  /\ session_context' = Put(session_context, key, val)
  /\ result' = NoResult("None")
  /\ call' = Call("set_context", "")
  /\ heard' = ""
  /\ UNCHANGED <<active_tasks, now, classified>>
  /\ UNCHANGED loop

\* time passes between two calls: datetime.now() reads a later value
Tick ==
  /\ now < MaxNow
  /\ now' = now + 1
  /\ result' = NoResult("None")
  /\ call' = Call("tick", "")
  /\ heard' = ""
  /\ UNCHANGED <<active_tasks, session_context, classified>>
  /\ UNCHANGED loop

\* intent_classifier.classify_intent(text): the intent and its confidence
classify_intent(text) ==
  /\ result' = [kind |-> "tuple", value |-> Classified[text]]
  /\ call' = Call("classify_intent", "")
  /\ heard' = text
  /\ classified' = IF classified = None THEN Some(<<text, Classified[text]>>) ELSE classified
  /\ UNCHANGED <<active_tasks, session_context, now>>
  /\ UNCHANGED loop

\* intent_classifier.get_required_fields(intent): the list of slot names
GetRequiredFields(intent) ==
  /\ result' = [kind |-> "list", value |-> get_required_fields(intent)]
  /\ call' = Call("get_required_fields", intent)
  /\ heard' = ""
  /\ UNCHANGED <<active_tasks, session_context, now, classified>>
  /\ UNCHANGED loop

\* the slot-filling dialog over the intents of DialogIntents
Next ==
  \/ \E u \in DialogUtterances, i \in DialogIntents : validate_and_extract(u, i, MaxTasks)
  \/ \E u \in DialogUtterances : complete_task_with_response(u)
  \/ ClearCompletedTasks
  \/ Tick

Spec == Init /\ [][Next]_vars

\* every intent of the catalog with every utterance and the session context,
\* over a store of at most MaxTasksAll records, within one reading of the clock
NextAll ==
  \/ \E u \in Utterances, i \in Intents : validate_and_extract(u, i, MaxTasksAll)
  \/ \E u \in Utterances : complete_task_with_response(u)
  \/ ClearCompletedTasks
  \/ \E k \in ContextKeys, v \in ContextValues : set_context(k, v)

SpecAll == Init /\ [][NextAll]_vars

\* the intents and utterances of the dialog that runs between two calls of
\* the classifier
LookupIntents == {"EMAIL_SEND", "WEB_SEARCH"}

LookupUtterances == {"send email to john@example.com", "search for cats"}

\* the classifier called at any moment of a dialog: classification and the
\* lookup of the required slots, with the operations of the task store and of
\* the session context in between
NextClassify ==
  \/ \E text \in ClassifyUtterances : classify_intent(text)
  \/ \E i \in Intents : GetRequiredFields(i)
  \/ \E u \in LookupUtterances, i \in LookupIntents : validate_and_extract(u, i, MaxTasksAll)
  \/ \E u \in LookupUtterances : complete_task_with_response(u)
  \/ ClearCompletedTasks
  \/ \E k \in ContextKeys, v \in ContextValues : set_context(k, v)

SpecClassify == Init /\ [][NextClassify]_vars

\* the arguments of the calls made on state_manager directly
TaskIds == {"t1", "t2"}

TaskTypes == {"email_send", "web_search"}

CreateData == {EmptyDict, << <<"subject", "hi">> >>}

UpdateStatus == {"", "in_progress", "failed"}

UpdateData == {EmptyDict, << <<"to", "a@b.c">> >>, << <<"subject", "re">> >>}

Results == {None, Some("done")}

\* a call on state_manager with its task id and task type arguments
StoreCall(op, task_id, task_type) ==
  [op |-> op, intent |-> "", task_id |-> task_id, task_type |-> task_type]

\* a value returned by state_manager
Returned(kind, val) == [kind |-> kind, value |-> val]

\* state_manager.create_task(task_id, task_type, initial_data)
CreateTask(task_id, task_type, initial_data) ==
  /\ active_tasks' = create_task(active_tasks, task_id, task_type, initial_data, now)
  /\ result' = Returned("TaskState", TaskState(task_id, task_type, initial_data, now))
  /\ call' = StoreCall("create_task", task_id, task_type)
  /\ heard' = ""
  /\ UNCHANGED <<session_context, now, classified>>
  /\ UNCHANGED loop

\* state_manager.update_task(task_id, status, **data)
UpdateTask(task_id, status, data) ==
  /\ active_tasks' = update_task(active_tasks, task_id, status, data, now)
  /\ result' = Returned("bool", Known(active_tasks, task_id))
  /\ call' = StoreCall("update_task", task_id, "")
  /\ heard' = ""
  /\ UNCHANGED <<session_context, now, classified>>
  /\ UNCHANGED loop

\* state_manager.complete_task(task_id, result)
CompleteTask(task_id, res) ==
  /\ active_tasks' = complete_task_result(active_tasks, task_id, res, now)
  /\ result' = Returned("bool", Known(active_tasks, task_id))
  /\ call' = StoreCall("complete_task", task_id, "")
  /\ heard' = ""
  /\ UNCHANGED <<session_context, now, classified>>
  /\ UNCHANGED loop

\* state_manager.get_active_tasks(task_type)
GetActiveTasks(task_type) ==
  /\ result' = Returned("dict", get_active_tasks(active_tasks, task_type))
  /\ call' = StoreCall("get_active_tasks", "", task_type)
  /\ heard' = ""
  /\ UNCHANGED <<active_tasks, session_context, now, classified>>
  /\ UNCHANGED loop

\* the task store called directly, as a caller of the core may, next to the
\* follow-up of the validator, within one reading of the clock; update_task
\* sets a status and merges no fields
NextStore ==
  \/ \E id \in TaskIds, ty \in TaskTypes, d \in CreateData : CreateTask(id, ty, d)
  \/ \E id \in TaskIds, st \in UpdateStatus : UpdateTask(id, st, EmptyDict)
  \/ \E id \in TaskIds, res \in Results : CompleteTask(id, res)
  \/ \E ty \in TaskTypes \cup {""} : GetActiveTasks(ty)
  \/ complete_task_with_response("search for cats")
  \/ ClearCompletedTasks
  \/ \E k \in ContextKeys, v \in ContextValues : set_context(k, v)

SpecStore == Init /\ [][NextStore]_vars

\* tasks of one type created with a subject and updated while the clock
\* advances: update_task with and without a status, with no field, a new
\* field and a field the task already holds
NextStoreClock ==
  \/ \E id \in TaskIds : CreateTask(id, "email_send", << <<"subject", "hi">> >>)
  \/ \E id \in TaskIds, st \in {"", "in_progress"}, d \in UpdateData : UpdateTask(id, st, d)
  \/ Tick

SpecStoreClock == Init /\ [][NextStoreClock]_vars

\* tasks created by a caller of the store under a type of the catalog and
\* under a type of its own, answered through the validator while the clock
\* advances
ForeignTypes == {"web_search", "reminder"}

ForeignResponses == {"search for cats", "gym at 5"}

NextForeign ==
  \/ \E id \in TaskIds, ty \in ForeignTypes, d \in CreateData : CreateTask(id, ty, d)
  \/ \E u \in ForeignResponses : complete_task_with_response(u)
  \/ \E id \in TaskIds : CompleteTask(id, None)
  \/ Tick

SpecForeign == Init /\ [][NextForeign]_vars

(***************************************************************************)
(* main.py: one pass of the interaction loop of write() in conversation    *)
(* mode, from the transcribed command to the spoken answer                 *)
(***************************************************************************)
\* the commands heard by the loop
LoopUtterances == Utterances \cup {"Jarvis shut down"}

\* classify_intent for each command
Commands == [command \in LoopUtterances |-> Classify(command)]

\* what a pass of the loop did: the validation it obtained, whether
\* executor.invoke ran, and the clarification given to tts.speak
Pass(kind, validation, invoked, clarification) ==
  [kind |-> kind, validation |-> validation, invoked |-> invoked, clarification |-> clarification]

\* lines 213-218 and 228-233: the clarification is spoken and the loop continues
Clarify(store, validation) ==
  [store |-> store, result |-> Pass("turn", validation, FALSE, validation.clarification)]

\* lines 238-264: the command is sent to the agent and its answer spoken
Invoke(store, validation) ==
  [store |-> store, result |-> Pass("turn", validation, TRUE, None)]

\* line 270: an exception ends the pass
Failed(store, validation) ==
  [store |-> store, result |-> Pass("turn", validation, FALSE, None)]

\* lines 226-236 without the test of is_valid
NewCommandOut_Unchecked(out) == Invoke(out.store, out.result)

\* lines 226-236, after validate_and_extract
NewCommandOut(out) ==
  IF ~out.result.is_valid THEN Clarify(out.store, out.result) ELSE Invoke(out.store, out.result)

\* lines 221-236: a new command is classified and validated
NewCommand(store, command, t) ==
  NewCommandOut(Validate(store, command, Commands[command][1], t))

\* the pass treating every utterance as a new command, whatever
\* complete_task_with_response would return
FollowUp_AlwaysNewCommand(store, command, t, out) == NewCommand(store, command, t)

\* lines 206-236, after complete_task_with_response
FollowUp(store, command, t, out) ==
  IF out.result.kind = "ValidationResult"
    THEN IF out.result.is_valid THEN Invoke(out.store, out.result)
         ELSE Clarify(out.store, out.result)
  ELSE IF out.result.kind = "None" THEN NewCommand(out.store, command, t)
  ELSE Failed(out.store, out.result)

\* lines 195-236: an empty transcript is skipped, "shut down" ends the loop
Heard(store, command, t) ==
  IF command = "" THEN [store |-> store, result |-> Pass("skip", NoResult("None"), FALSE, None)]
  ELSE IF Contains(lower(command), "shut down")
    THEN [store |-> store, result |-> Pass("break", NoResult("None"), FALSE, None)]
  ELSE FollowUp(store, command, t, Complete(store, command, t))

\* the transcripts heard while waiting for the wake word
WakeTranscripts == {"", "hello there", "Hey Jarvis"}

\* the seconds stt.listen() blocks until something is heard: less than one,
\* more than CONVERSATION_TIMEOUT
ListenSeconds == {0, 31}

\* the seconds between the two readings of time.time() on lines 264 and
\* 266, which follow each other: no whole second
Gaps == {0}

TRIGGER_WORD == "jarvis"

CONVERSATION_TIMEOUT == 30

\* lines 217, 232 and 264: the pass spoke and noted the time
Spoke(pass) == pass.invoked \/ pass.clarification # None

\* line 266, with time.time() reading t
TimedOut(t, last) == t - last > CONVERSATION_TIMEOUT

\* lines 177-188: a pass of the loop outside conversation mode; the wake
\* word starts the conversation
WakeWord(transcript, listened) ==
  /\ ~conversation_mode
  /\ clock + listened <= MaxClock
  /\ clock' = clock + listened
  /\ IF transcript # "" /\ Contains(lower(transcript), TRIGGER_WORD)
       THEN conversation_mode' = TRUE /\ last_interaction_time' = Some(clock')
       ELSE UNCHANGED <<conversation_mode, last_interaction_time>>
  /\ result' = Pass("wake", NoResult("None"), FALSE, None)
  /\ call' = Call("wake", "")
  /\ heard' = transcript
  /\ UNCHANGED <<active_tasks, session_context, now, classified>>

\* lines 189-268: a pass of the loop in conversation mode on a command heard
\* after listened seconds, explored while the store holds at most MaxTasks
\* records; no pass follows the break
Turn(command, listened, gap) ==
  /\ conversation_mode
  /\ call.op # "break"
  /\ clock + listened + gap <= MaxClock
  /\ \E out \in {Heard(active_tasks, command, now)} :
       /\ Len(out.store) <= MaxTasks
       /\ active_tasks' = out.store
       /\ result' = out.result
       /\ call' = Call(out.result.kind, "")
       /\ last_interaction_time' =
            IF Spoke(out.result) THEN Some(clock + listened) ELSE last_interaction_time
       /\ clock' = IF out.result.invoked THEN clock + listened + gap ELSE clock + listened
       /\ conversation_mode' =
            IF out.result.invoked THEN ~TimedOut(clock', last_interaction_time'[1])
            ELSE conversation_mode
  /\ heard' = command
  /\ UNCHANGED <<session_context, now, classified>>

\* the interaction loop, with time passing between two commands
NextLoop ==
  \/ \E transcript \in WakeTranscripts, listened \in ListenSeconds : WakeWord(transcript, listened)
  \/ \E command \in LoopUtterances, listened \in ListenSeconds, gap \in Gaps :
       Turn(command, listened, gap)
  \/ Tick

SpecLoop == Init /\ [][NextLoop]_vars

\* the time expressions given to extract_fields: an hour of one or two
\* digits, minutes or none, an am/pm marker or none, next to the hour or
\* after a space
TimeHours == {"0", "3", "9", "07", "11", "12", "13", "25"}

TimeMinutes == {"", "05", "30"}

TimeMarkers == {"", "am", "pm", " am", " PM"}

TimeText(h, m, k) == "at " \o h \o (IF m = "" THEN "" ELSE ":" \o m) \o k

TimeTexts == {TimeText(h, m, k) : h \in TimeHours, m \in TimeMinutes, k \in TimeMarkers}

\* utterances for the title rules: a known noun alone, a noun with "going
\* to" and with a verb, "going to" with a verb, each rule alone, no rule
TitleTexts ==
  {"gym at 5", "going to the gym", "schedule big dinner on friday",
   "create pool on going to spa", "going to paris", "schedule review for monday",
   "going to gymnastics", "lunch meeting", "hello there", "add eggs for lunch"}

\* utterances for the query rules: each prefix, two prefixes in either order,
\* a prefix with nothing after it, no prefix
QueryTexts ==
  {"search for cats", "look up  dogs ", "find my keys", "google tla",
   "look up a find b", "google how to search for x", "find ", "cats and dogs",
   "Search For The Best. Pizza"}

\* utterances for the generic title rule: a verb of the rule, a free text
\* without and with the letters a and t, a time or date marker
FreeTexts == {"review", "my run", "tennis", "date night"}

Markers == {"at 3pm", "for monday", "on friday"}

GenericText(verb, free, marker) == verb \o " " \o free \o " " \o marker

GenericTexts ==
  {GenericText(Verbs[v], free, marker) : v \in DOMAIN Verbs, free \in FreeTexts, marker \in Markers}

\* utterances with a time of each form, H:MM and H am/pm, in either order
ColonTimes == {<<"4", "30", "">>, <<"11", "15", " am">>, <<"10", "45", "pm">>}

HourTimes == {<<"3", "pm">>, <<"9", " am">>, <<"12", "am">>}

ColonText(c) == c[1] \o ":" \o c[2] \o c[3]

HourText(h) == h[1] \o h[2]

BothTimeTexts ==
  {ColonText(c) \o " or " \o HourText(h) : c \in ColonTimes, h \in HourTimes}
  \cup {HourText(h) \o " or " \o ColonText(c) : c \in ColonTimes, h \in HourTimes}

ExtractUtterances == TimeTexts \cup TitleTexts \cup QueryTexts \cup GenericTexts \cup BothTimeTexts

\* the intents extract_fields is called with
ExtractIntents == {"CALENDAR_CREATE", "EMAIL_SEND", "WEB_SEARCH", "MEMORY_LOOKUP", "CALENDAR_SEARCH"}

\* extract_fields over the inputs of the model
ExtractedFields ==
  [text \in ExtractUtterances, intent \in ExtractIntents, d \in 0..Day(MaxNow) |->
     ExtractOn(text, intent, d)]

\* intent_classifier.extract_fields(text, intent): the mapping of the slots
ExtractFields(text, intent) ==
  /\ result' = [kind |-> "dict", value |-> ExtractedFields[text, intent, Day(now)]]
  /\ call' = Call("extract_fields", intent)
  /\ heard' = text
  /\ UNCHANGED <<active_tasks, session_context, now, classified>>
  /\ UNCHANGED loop

\* extract_fields called on any utterance with any intent, at any reading of
\* the clock
NextExtract ==
  \/ \E text \in ExtractUtterances, i \in ExtractIntents : ExtractFields(text, i)
  \/ Tick

SpecExtract == Init /\ [][NextExtract]_vars

\* the dialog over free-form commands: a passthrough intent and an intent
\* whose slot these utterances never fill
TerminalIntents == {"TERMINAL", "WEB_SEARCH"}

NextTerminal ==
  \/ \E u \in TerminalUtterances, i \in TerminalIntents : validate_and_extract(u, i, MaxTasks)
  \/ \E u \in TerminalUtterances : complete_task_with_response(u)
  \/ ClearCompletedTasks
  \/ Tick

SpecTerminal == Init /\ [][NextTerminal]_vars

\* the arguments given to _generate_clarification: intents with templates
\* for all, some and none of their slots; one, two and three missing slots,
\* in either order, with and without a template; no known field, one, two,
\* and one with an empty value
ClarifyIntents == {"EMAIL_SEND", "CALENDAR_CREATE", "WEB_SEARCH", "MEMORY_LOOKUP", "TERMINAL"}

ClarifyMissing ==
  {<<"subject">>, <<"title">>, <<"query">>, <<"command">>,
   <<"to", "subject">>, <<"subject", "to">>, <<"query", "to">>, <<"date", "time">>,
   <<"to", "subject", "content">>}

ClarifyKnown ==
  {EmptyDict, << <<"to", "john@example.com">> >>,
   << <<"time", "15:00">>, <<"date", "2024-03-09">> >>, << <<"command", "">> >>}

\* the string returned, with the arguments of the call
Clarified(missing_fields, extracted_fields, text) ==
  [kind |-> "str", value |-> text, missing_fields |-> missing_fields,
   extracted_fields |-> extracted_fields]

\* tool_validator._generate_clarification(intent, missing_fields, extracted_fields)
GenerateClarification(intent, missing_fields, extracted_fields) ==
  /\ result' = Clarified(missing_fields, extracted_fields,
                         generate_clarification(intent, missing_fields, extracted_fields))
  /\ call' = Call("_generate_clarification", intent)
  /\ heard' = ""
  /\ UNCHANGED <<active_tasks, session_context, now, classified>>
  /\ UNCHANGED loop

NextClarify ==
  \E i \in ClarifyIntents, m \in ClarifyMissing, e \in ClarifyKnown : GenerateClarification(i, m, e)

SpecClarify == Init /\ [][NextClarify]_vars

(***************************************************************************)
(* Properties                                                              *)
(***************************************************************************)
\* the records of the store with an active status
ActiveOf(store, task_type) ==
  {i \in DOMAIN store : store[i].task_type = task_type /\ store[i].status \in ActiveStatus}

\* the state left by validate_and_extract("send email to john@example.com",
\* EMAIL_SEND) when it created the pending email_send task
EmailTaskCreated ==
  /\ call = Call("validate_and_extract", "EMAIL_SEND")
  /\ ~result.is_valid
  /\ result.extracted_fields = << <<"to", "john@example.com">> >>
  /\ \E i \in DOMAIN active_tasks :
       /\ active_tasks[i].task_type = "email_send" /\ active_tasks[i].status = "pending"
       /\ active_tasks[i].data = << <<"to", "john@example.com">> >>
       /\ RecentTaskId(get_active_tasks(active_tasks, "")) = active_tasks[i].id

\* C1: after validate_and_extract("send email to john@example.com", EMAIL_SEND)
\* has created a pending email_send task, the follow-up
\* complete_task_with_response("subject is project update") merges subject,
\* completes the task and returns is_valid = true with
\* {to: "john@example.com", subject: "project update"}.
C1_FollowUpCompletesEmail ==
  [][(EmailTaskCreated /\ complete_task_with_response("subject is project update"))
       => /\ result'.is_valid
          /\ result'.missing_fields = <<>>
          /\ AsMap(result'.extracted_fields) =
               [k \in {"to", "subject"} |->
                  IF k = "to" THEN "john@example.com" ELSE "project update"]
          /\ \A i \in DOMAIN active_tasks' :
               active_tasks'[i].task_type = "email_send" =>
                 active_tasks'[i].status = "completed"]_vars

\* C2: every required slot of a pending task is a slot that extract_fields
\* can produce for the task's intent from some utterance, so that the
\* clarification dialog can be driven to completion.
C2_RequiredSlotsExtractable ==
  \A i \in DOMAIN active_tasks :
    active_tasks[i].status = "pending" =>
      \A n \in DOMAIN get_required_fields(IntentOf(active_tasks[i].task_type)) :
        \E u \in Utterances :
          Truthy(extract_fields(u, IntentOf(active_tasks[i].task_type)),
                 get_required_fields(IntentOf(active_tasks[i].task_type))[n])

\* C3: with an empty store, validate_and_extract("send email to
\* john@example.com", EMAIL_SEND) returns is_valid = false, extracted_fields
\* {to: "john@example.com"}, missing_fields ["subject"], and leaves a new
\* pending email_send task with data {to: "john@example.com"} in
\* get_active_tasks("email_send").
C3_EmailWithoutSubject ==
  [][(active_tasks = <<>>
      /\ validate_and_extract("send email to john@example.com", "EMAIL_SEND", MaxTasksAll))
       => /\ result'.kind = "ValidationResult"
          /\ ~result'.is_valid
          /\ AsMap(result'.extracted_fields) = [k \in {"to"} |-> "john@example.com"]
          /\ result'.missing_fields = <<"subject">>
          /\ LET active == get_active_tasks(active_tasks', "email_send")
             IN  /\ Len(active) = 1
                 /\ active[1].task_type = "email_send"
                 /\ active[1].status = "pending"
                 /\ AsMap(active[1].data) = [k \in {"to"} |-> "john@example.com"]]_vars

C3_Witness ==
  /\ call = Call("validate_and_extract", "EMAIL_SEND")
  /\ Len(active_tasks) = 1
  /\ active_tasks[1].id = "email_send_0"
  /\ active_tasks[1].data = << <<"to", "john@example.com">> >>
  /\ result.missing_fields = <<"subject">>

\* C4: a task in the store is completed if and only if its data holds a
\* non-empty value for every required slot of its task_type.
C4_CompletedIffAllRequired ==
  \A i \in DOMAIN active_tasks :
    (active_tasks[i].status = "completed")
      <=> (Missing(get_required_fields(IntentOf(active_tasks[i].task_type)),
                   active_tasks[i].data) = <<>>)

C4_Witness ==
  /\ call.op = "complete_task_with_response"
  /\ result.is_valid
  /\ \E i \in DOMAIN active_tasks :
       /\ active_tasks[i].status = "completed"
       /\ get_required_fields(IntentOf(active_tasks[i].task_type)) # <<>>
       /\ AsMap(active_tasks[i].data) = AsMap(result.extracted_fields)

\* C5: a record leaves the store only through clear_completed_tasks: no other
\* call removes a record or replaces the record stored under an existing id,
\* and a completed record that is not swept keeps its status and data.
C5_OnlySweepRemoves ==
  [][call'.op # "clear_completed_tasks" =>
       \A i \in DOMAIN active_tasks :
         \E j \in DOMAIN active_tasks' :
           /\ active_tasks'[j].id = active_tasks[i].id
           /\ active_tasks'[j].task_type = active_tasks[i].task_type
           /\ active_tasks'[j].created_at = active_tasks[i].created_at
           /\ active_tasks[i].status \in TerminalStatus =>
                active_tasks'[j] = active_tasks[i]]_vars

\* the step is a call that extracts fields from utterance u for intent
Extracting(u, intent) ==
  \/ complete_task_with_response(u)
  \/ validate_and_extract(u, intent, MaxTasks)

\* the step is a call whose utterance yields value v for slot k of intent
ExtractedNow(intent, k, v) ==
  \E u \in DialogUtterances :
    /\ Has(extract_fields(u, intent), k)
    /\ Get(extract_fields(u, intent), k) = v
    /\ Extracting(u, intent)

\* C6: merge monotonicity: while a task is active, no call shrinks the key
\* set of its data, and a key gets a new value only when the utterance of
\* the call extracts that value for the key.
C6_MergeMonotone ==
  [][\A i \in DOMAIN active_tasks :
       active_tasks[i].status \in ActiveStatus =>
         \E j \in DOMAIN active_tasks' :
           /\ active_tasks'[j].id = active_tasks[i].id
           /\ Keys(active_tasks[i].data) \subseteq Keys(active_tasks'[j].data)
           /\ \A k \in Keys(active_tasks'[j].data) :
                (Has(active_tasks[i].data, k)
                   => Get(active_tasks'[j].data, k) # Get(active_tasks[i].data, k))
                  => ExtractedNow(IntentOf(active_tasks[i].task_type), k,
                                  Get(active_tasks'[j].data, k))]_vars

C6_Witness ==
  /\ call.op = "complete_task_with_response"
  /\ \E i \in DOMAIN active_tasks :
       /\ Keys(active_tasks[i].data) = {"time", "date", "title"}
       /\ active_tasks[i].created_at < active_tasks[i].updated_at

\* C7: the intents without required slots are WEATHER, CALENDAR_CHECK,
\* EMAIL_READ and GENERAL, and for them validate_and_extract returns
\* is_valid = true and leaves the store as it was, whatever the utterance.
C7_NoRequiredSlots ==
  [][/\ {i \in Intents : get_required_fields(i) = <<>>} =
          {"WEATHER", "CALENDAR_CHECK", "EMAIL_READ", "GENERAL"}
     /\ (call'.op = "validate_and_extract" /\ get_required_fields(call'.intent) = <<>>)
          => /\ result'.kind = "ValidationResult"
             /\ result'.is_valid
             /\ result'.missing_fields = <<>>
             /\ active_tasks' = active_tasks]_vars

C7_Witness ==
  /\ call = Call("validate_and_extract", "WEATHER")
  /\ result.is_valid
  /\ active_tasks # <<>>

\* C8 as claimed: for "gym at 5" with CALENDAR_CREATE the extraction yields
\* title "gym" and time "17:00", and validate_and_extract returns
\* is_valid = true.
C8_GymAtFiveHasTime ==
  [][validate_and_extract("gym at 5", "CALENDAR_CREATE", MaxTasks)
       => /\ result'.is_valid
          /\ Truthy(result'.extracted_fields, "title")
          /\ Get(result'.extracted_fields, "title") = "gym"
          /\ Has(result'.extracted_fields, "time")
          /\ Get(result'.extracted_fields, "time") = "17:00"]_vars

\* C8: for "gym at 5" with CALENDAR_CREATE the extraction yields title "gym"
\* and no time (a bare hour is not a time), and validate_and_extract returns
\* is_valid = true because title is the only required slot.
C8_GymAtFiveTitleOnly ==
  [][validate_and_extract("gym at 5", "CALENDAR_CREATE", MaxTasks)
       => /\ get_required_fields("CALENDAR_CREATE") = <<"title">>
          /\ result'.is_valid
          /\ result'.missing_fields = <<>>
          /\ result'.extracted_fields = << <<"title", "gym">> >>]_vars

C8_Witness ==
  /\ call = Call("validate_and_extract", "CALENDAR_CREATE")
  /\ result.is_valid
  /\ result.extracted_fields = << <<"title", "gym">> >>

\* C9: whenever validate_and_extract returns is_valid = true it has left the
\* store (every task's data, status and updated_at) and the session context
\* as they were.
C9_ValidLeavesStore ==
  [][(call'.op = "validate_and_extract" /\ result'.is_valid)
       => active_tasks' = active_tasks /\ session_context' = session_context]_vars

C9_Witness ==
  /\ call.op = "validate_and_extract"
  /\ result.is_valid
  /\ ActiveOf(active_tasks, value(call.intent)) # {}

\* the fields are all in data, with the same values
Within(fields, data) == \A k \in Keys(fields) : Has(data, k) /\ Get(data, k) = Get(fields, k)

\* C10: whenever validate_and_extract returns is_valid = false for an intent,
\* a new pending task of its type is created if none was active, otherwise
\* no task is created; in both cases an active task of the type then holds
\* every key and value of the returned extracted_fields.
C10_InvalidPersists ==
  [][(call'.op = "validate_and_extract" /\ ~result'.is_valid)
       => LET before == ActiveOf(active_tasks, value(call'.intent))
              after == ActiveOf(active_tasks', value(call'.intent))
          IN  /\ IF before = {}
                   THEN /\ Cardinality(after) = 1
                        /\ \A j \in after :
                             /\ active_tasks'[j].status = "pending"
                             /\ active_tasks'[j].created_at = now
                             /\ AsMap(active_tasks'[j].data) = AsMap(result'.extracted_fields)
                   ELSE /\ Len(active_tasks') = Len(active_tasks)
                        /\ \A j \in DOMAIN active_tasks :
                             /\ active_tasks'[j].id = active_tasks[j].id
                             /\ active_tasks'[j].created_at = active_tasks[j].created_at
                             /\ active_tasks'[j].status = active_tasks[j].status
              /\ \E j \in after : Within(result'.extracted_fields, active_tasks'[j].data)]_vars

C10_Witness ==
  /\ call = Call("validate_and_extract", "CALENDAR_CREATE")
  /\ ~result.is_valid
  /\ result.missing_fields = <<"title">>
  /\ Len(active_tasks) = 1
  /\ active_tasks[1].task_type = "calendar_create"
  /\ active_tasks[1].status = "pending"
  /\ active_tasks[1].created_at < active_tasks[1].updated_at
  /\ Keys(active_tasks[1].data) = {"time", "date"}

\* C11: backfill in validate_and_extract: when a task of the intent's type is
\* active, every required slot that the utterance did not supply and that
\* has a non-empty value in the task's data is not in missing_fields and is
\* returned in extracted_fields with the task's value; every slot the
\* utterance supplied is returned with the utterance's value.
C11_BackfillFromTask ==
  [][call'.op = "validate_and_extract" =>
       LET intent == call'.intent
           said == extract_fields(heard', intent)
           active == get_active_tasks(active_tasks, value(intent))
           required_fields == get_required_fields(intent)
       IN  active # <<>> =>
             /\ \A a \in DOMAIN active, n \in DOMAIN required_fields :
                  (~Truthy(said, required_fields[n])
                     /\ Truthy(active[a].data, required_fields[n]))
                    => /\ required_fields[n] \notin Range(result'.missing_fields)
                       /\ Has(result'.extracted_fields, required_fields[n])
                       /\ Get(result'.extracted_fields, required_fields[n]) =
                            Get(active[a].data, required_fields[n])
             /\ \A k \in Keys(said) :
                  Truthy(said, k) =>
                    /\ Has(result'.extracted_fields, k)
                    /\ Get(result'.extracted_fields, k) = Get(said, k)]_vars

C11_Witness ==
  /\ call = Call("validate_and_extract", "EMAIL_SEND")
  /\ heard = "subject is project update"
  /\ extract_fields(heard, "EMAIL_SEND") = EmptyDict
  /\ result.missing_fields = <<"subject">>
  /\ result.extracted_fields = << <<"to", "john@example.com">> >>
  /\ Len(active_tasks) = 1
  /\ active_tasks[1].status = "pending"
  /\ active_tasks[1].data = << <<"to", "john@example.com">> >>

\* C12: the extracted_fields of a result is the full mapping known so far:
\* when validate_and_extract returns is_valid = false for an intent that
\* already had an active task, the returned extracted_fields equals the
\* complete data of that task after the merge, optional slots of earlier
\* turns included.
C12_ReturnsFullMapping ==
  [][(call'.op = "validate_and_extract" /\ ~result'.is_valid)
       => \A i \in ActiveOf(active_tasks, value(call'.intent)) :
            \E j \in DOMAIN active_tasks' :
              /\ active_tasks'[j].id = active_tasks[i].id
              /\ AsMap(result'.extracted_fields) = AsMap(active_tasks'[j].data)]_vars

\* C13: complete_task_with_response returns None exactly when the store holds
\* no task with status pending or in_progress (an empty store, or one with
\* completed and failed tasks only), and then it leaves the store and the
\* session context as they were.
C13_NoneIffNoActiveTask ==
  [][call'.op = "complete_task_with_response" =>
       /\ (result'.kind = "None")
            <=> (\A i \in DOMAIN active_tasks : active_tasks[i].status \notin ActiveStatus)
       /\ result'.kind = "None" =>
            active_tasks' = active_tasks /\ session_context' = session_context]_vars

C13_Witness ==
  /\ call.op = "complete_task_with_response"
  /\ result.kind = "None"
  /\ active_tasks # <<>>
  /\ \A i \in DOMAIN active_tasks : active_tasks[i].status = "completed"

\* the records of the store with an active status, of any type
ActiveAny(store) == {i \in DOMAIN store : store[i].status \in ActiveStatus}

\* C14: when several tasks are active, complete_task_with_response works on
\* one with the latest created_at: the fields are extracted for that task's
\* intent type and merged into its data, only that task's data, status and
\* updated_at may change, and every other record of the store is unchanged.
C14_LatestTaskAnswered ==
  [][(call'.op = "complete_task_with_response" /\ Cardinality(ActiveAny(active_tasks)) >= 2)
       => \E i \in ActiveAny(active_tasks) :
            /\ \A j \in ActiveAny(active_tasks) :
                 active_tasks[j].created_at <= active_tasks[i].created_at
            /\ Len(active_tasks') = Len(active_tasks)
            /\ \A j \in DOMAIN active_tasks : j # i => active_tasks'[j] = active_tasks[j]
            /\ active_tasks'[i].id = active_tasks[i].id
            /\ active_tasks'[i].task_type = active_tasks[i].task_type
            /\ active_tasks'[i].created_at = active_tasks[i].created_at
            /\ AsMap(active_tasks'[i].data) =
                 AsMap(Update(active_tasks[i].data,
                              extract_fields(heard', IntentOf(active_tasks[i].task_type))))
            /\ AsMap(result'.extracted_fields) = AsMap(active_tasks'[i].data)]_vars

C14_Witness ==
  /\ call.op = "complete_task_with_response"
  /\ heard = "search for cats"
  /\ result.is_valid
  /\ \E i, j \in DOMAIN active_tasks :
       /\ active_tasks[i].task_type = "calendar_create"
       /\ active_tasks[i].status = "pending"
       /\ active_tasks[i].created_at < active_tasks[j].created_at
       /\ active_tasks[j].task_type = "web_search"
       /\ active_tasks[j].status = "completed"
       /\ active_tasks[j].data = << <<"query", "cats">> >>
       /\ result.extracted_fields = active_tasks[j].data

\* C15: complete_task_with_response merges the fields extracted from the
\* follow-up utterance into the data of the selected task, the new value
\* winning where the key was already there, and the extracted_fields it
\* returns, valid or not, equals the data of the task after the merge.
C15_FollowUpMergedNewWins ==
  [][(call'.op = "complete_task_with_response" /\ result'.kind = "ValidationResult")
       => \E i \in ActiveAny(active_tasks) :
            LET before == active_tasks[i].data
                after == active_tasks'[i].data
                new_fields == extract_fields(heard', IntentOf(active_tasks[i].task_type))
            IN  /\ active_tasks[i].id = RecentTaskId(get_active_tasks(active_tasks, ""))
                /\ active_tasks'[i].id = active_tasks[i].id
                /\ Keys(after) = Keys(before) \cup Keys(new_fields)
                /\ \A k \in Keys(new_fields) : Get(after, k) = Get(new_fields, k)
                /\ \A k \in Keys(before) \ Keys(new_fields) : Get(after, k) = Get(before, k)
                /\ AsMap(result'.extracted_fields) = AsMap(after)]_vars

\* a follow-up "tomorrow at 3pm" on a later day than the task was created:
\* the date it extracts replaces the one stored
C15_Witness ==
  /\ call.op = "complete_task_with_response"
  /\ heard = "tomorrow at 3pm"
  /\ ~result.is_valid
  /\ \E i \in DOMAIN active_tasks :
       /\ active_tasks[i].task_type = "calendar_create"
       /\ Day(active_tasks[i].created_at) < Day(now)
       /\ active_tasks[i].updated_at = now
       /\ active_tasks[i].data = << <<"time", "15:00">>, <<"date", Strftime(Day(now) + 1)>> >>
       /\ result.extracted_fields = active_tasks[i].data

\* the intent a result is about: the one passed to validate_and_extract, or
\* the type of the task complete_task_with_response selected
AnsweredIntent ==
  IF call'.op = "validate_and_extract" THEN call'.intent
  ELSE IntentOf(RecentTask(get_active_tasks(active_tasks, "")).task_type)

\* xs is in the order of ys
InOrderOf(xs, ys) ==
  \A a, b \in DOMAIN xs :
    a < b => \E c, d \in DOMAIN ys : c < d /\ ys[c] = xs[a] /\ ys[d] = xs[b]

\* C16: every ValidationResult returned by validate_and_extract or
\* complete_task_with_response is consistent: is_valid holds iff
\* missing_fields is empty and iff there is no clarification, and
\* missing_fields lists, in the order of the required slots and without
\* repetition, exactly the required slots of the intent that have no
\* non-empty value in extracted_fields.
C16_ResultConsistent ==
  [][result'.kind = "ValidationResult" =>
       /\ result'.is_valid <=> (result'.missing_fields = <<>>)
       /\ result'.is_valid <=> (result'.clarification = None)
       /\ Range(result'.missing_fields) =
            {f \in Range(get_required_fields(AnsweredIntent)) :
               ~(Has(result'.extracted_fields, f) /\ Get(result'.extracted_fields, f) # "")}
       /\ InOrderOf(result'.missing_fields, get_required_fields(AnsweredIntent))
       /\ Cardinality(Range(result'.missing_fields)) = Len(result'.missing_fields)]_vars

\* TERMINAL with an empty utterance: the slot command is present and empty
C16_Witness ==
  /\ call = Call("validate_and_extract", "TERMINAL")
  /\ heard = ""
  /\ result.kind = "ValidationResult"
  /\ ~result.is_valid
  /\ result.missing_fields = <<"command">>
  /\ result.extracted_fields = << <<"command", "">> >>
  /\ result.clarification # None

CatalogOrder ==
  <<"CALENDAR_CREATE", "CALENDAR_CHECK", "CALENDAR_SEARCH", "EMAIL_SEND", "EMAIL_READ",
    "WEATHER", "APP_LAUNCH", "TERMINAL", "WEB_SEARCH", "MEMORY_LOOKUP">>

\* the number of rules of an intent
RuleCount(intent) == Len(patterns(intent))

\* a/b < c/d for positive b and d
Below(a, b, c, d) == a * d < c * b

\* C18: when some rule matches the lower-cased text, classify_intent returns
\* an intent of the catalog with the score matches / rules of that intent;
\* no intent has a greater score, and no intent earlier in the catalog order
\* has the same score; the confidence is always in [0, 1].
C18_MaxScoreFirstInCatalog ==
  [][call'.op = "classify_intent" =>
       LET chosen == result'.value[1]
           score  == result'.value[2]
           hits(i) == Matching[heard', i]
       IN  /\ 0 <= score.num /\ score.num <= score.den /\ score.den > 0
           /\ (\E i \in Range(CatalogOrder) : hits(i) > 0) =>
                /\ \E n \in DOMAIN CatalogOrder :
                     /\ chosen = CatalogOrder[n]
                     /\ score = Fraction(hits(chosen), RuleCount(chosen))
                     /\ \A m \in DOMAIN CatalogOrder :
                          /\ ~Below(hits(chosen), RuleCount(chosen),
                                    hits(CatalogOrder[m]), RuleCount(CatalogOrder[m]))
                          /\ m < n => Below(hits(CatalogOrder[m]), RuleCount(CatalogOrder[m]),
                                            hits(chosen), RuleCount(chosen))]_vars

\* "check my calendar and run tests": CALENDAR_CHECK with 1 of 4 rules and
\* TERMINAL with 2 of 8 share the maximum, the earlier one is returned
C18_Witness ==
  /\ call = Call("classify_intent", "")
  /\ heard = "check my calendar and run tests"
  /\ Matching[heard, "CALENDAR_CHECK"] = 1 /\ Matching[heard, "TERMINAL"] = 2
  /\ result.value = <<"CALENDAR_CHECK", Fraction(1, 4)>>

\* C19: classify_intent returns (GENERAL, 0.0) if and only if no rule of any
\* intent matches the text, and a returned intent other than GENERAL comes
\* with a confidence strictly greater than 0.
C19_GeneralIffNoMatch ==
  [][call'.op = "classify_intent" =>
       /\ (result'.value[1] = "GENERAL" /\ result'.value[2].num = 0)
            <=> (\A i \in Range(CatalogOrder) : Matching[heard', i] = 0)
       /\ result'.value[1] # "GENERAL" => result'.value[2].num > 0]_vars

\* both sides of the equivalence: "hello there" matches no rule and is
\* classified as GENERAL, after "git status", which matches one rule of eight,
\* was classified as TERMINAL
C19_Witness ==
  /\ call = Call("classify_intent", "")
  /\ heard = "hello there"
  /\ \A i \in Range(CatalogOrder) : Matching[heard, i] = 0
  /\ result.value = <<"GENERAL", Fraction(0, 1)>>
  /\ Matching["git status", "TERMINAL"] = 1
  /\ classified = Some(<<"git status", <<"TERMINAL", Fraction(1, 8)>> >>)

\* the required slots of each intent
RequiredSlots ==
  [intent \in Intents |->
     CASE intent = "CALENDAR_CREATE" -> <<"title">>
       [] intent = "EMAIL_SEND" -> <<"to", "subject">>
       [] intent = "APP_LAUNCH" -> <<"app_name">>
       [] intent = "TERMINAL" -> <<"command">>
       [] intent \in {"WEB_SEARCH", "MEMORY_LOOKUP", "CALENDAR_SEARCH"} -> <<"query">>
       [] OTHER -> <<>>]

\* C20: get_required_fields is a static lookup: every call for an intent
\* returns the one ordered list of that intent, whatever the store and the
\* session context hold, and GENERAL, which has no table entry, returns the
\* empty list.
C20_RequiredFieldsStatic ==
  [][call'.op = "get_required_fields" =>
       /\ result'.value = RequiredSlots[call'.intent]
       /\ call'.intent = "GENERAL" => result'.value = <<>>]_vars

\* the lookup for EMAIL_SEND while a pending email task holds the slot to
C20_Witness ==
  /\ call = Call("get_required_fields", "EMAIL_SEND")
  /\ result.value = <<"to", "subject">>
  /\ \E i \in DOMAIN active_tasks :
       /\ active_tasks[i].task_type = "email_send"
       /\ active_tasks[i].status = "pending"
       /\ Has(active_tasks[i].data, "to")

\* the text of a time expression and the time the claim gives for it: the
\* hour plus 12 for pm below 12, 0 for 12 am, the hour otherwise, on two
\* digits, and the minutes or 00
TimeCases ==
  {<<TimeText(h, m, k), h, m, lower(strip(k))>> :
     h \in TimeHours, m \in TimeMinutes, k \in TimeMarkers}

NormalHour(h, marker) ==
  IF marker = "pm" /\ int(h) < 12 THEN int(h) + 12
  ELSE IF marker = "am" /\ int(h) = 12 THEN 0
  ELSE int(h)

TwoDigits(n) == IF n < 10 THEN "0" \o str(n) ELSE str(n)

NormalTime(h, m, marker) ==
  TwoDigits(NormalHour(h, marker)) \o ":" \o (IF m = "" THEN "00" ELSE m)

\* C21 as stated: for every hour with optional minutes and optional am/pm
\* marker, extract_fields for CALENDAR_CREATE sets time to the normalised
\* HH:MM.
C21_EveryHourNormalised ==
  [][(call'.op = "extract_fields" /\ call'.intent = "CALENDAR_CREATE") =>
       \A c \in TimeCases :
         heard' = c[1] =>
           /\ Has(result'.value, "time")
           /\ Get(result'.value, "time") = NormalTime(c[2], c[3], c[4])]_vars

\* C21: for an hour of one or two digits followed by minutes, an am/pm
\* marker or both, extract_fields for CALENDAR_CREATE sets time to HH:MM,
\* where HH is the hour plus 12 for pm below 12, 00 for 12 am and the hour
\* otherwise, on two digits, and MM is the minutes or 00; an hour with
\* neither minutes nor marker sets no time slot.
C21_TimeNormalised ==
  [][(call'.op = "extract_fields" /\ call'.intent = "CALENDAR_CREATE") =>
       \A c \in TimeCases :
         heard' = c[1] =>
           IF c[3] = "" /\ c[4] = ""
             THEN ~Has(result'.value, "time")
             ELSE /\ Has(result'.value, "time")
                  /\ Get(result'.value, "time") = NormalTime(c[2], c[3], c[4])]_vars

\* "at 12 PM" was given for CALENDAR_CREATE and the time is 12:00
C21_Witness ==
  /\ call = Call("extract_fields", "CALENDAR_CREATE")
  /\ heard = "at 12 PM"
  /\ <<heard, "12", "", "pm">> \in TimeCases
  /\ result.value = << <<"time", "12:00">> >>

\* what each of the three title rules yields on each utterance, <<>> when the
\* rule does not match: the known noun, the word after "going to", the
\* trimmed text after the verb
TitleRules ==
  [text \in ExtractUtterances |->
     LET s == lower(text)
     IN  <<ActivityMatch(s), GoingToMatch(s),
           IF VerbMatch(s) = <<>> THEN <<>> ELSE <<strip(VerbMatch(s)[1])>> >>]

\* the known activity nouns that occur as words of the utterance
NounsIn ==
  [text \in ExtractUtterances |->
     {ActivityNouns[n] : n \in {k \in DOMAIN ActivityNouns :
        \E p \in 1..Len(text) : NounAt(lower(text), p, ActivityNouns[k])}}]

\* C22: the title of extract_fields for CALENDAR_CREATE is what the first
\* matching rule yields, in the order known activity noun, "going to X",
\* verb + free text, and there is no title when no rule matches; when a
\* known activity noun occurs in the utterance the title is such a noun,
\* whatever the later rules yield.
C22_FirstTitleRuleWins ==
  [][(call'.op = "extract_fields" /\ call'.intent = "CALENDAR_CREATE") =>
       LET rules == TitleRules[heard']
           hits  == {n \in 1..3 : rules[n] # <<>>}
       IN  /\ hits = {} => ~Has(result'.value, "title")
           /\ hits # {} =>
                /\ Has(result'.value, "title")
                /\ Get(result'.value, "title") = rules[Min(hits)][1]
           /\ NounsIn[heard'] # {} =>
                /\ Has(result'.value, "title")
                /\ Get(result'.value, "title") \in NounsIn[heard']]_vars

\* "schedule big dinner on friday": the noun rule yields dinner and the verb
\* rule big dinner; the title is dinner
C22_Witness ==
  /\ call = Call("extract_fields", "CALENDAR_CREATE")
  /\ heard = "schedule big dinner on friday"
  /\ TitleRules[heard] = << <<"dinner">>, <<>>, <<"big dinner">> >>
  /\ result.value = << <<"title", "dinner">> >>

\* the intents whose required slot is query
QueryIntents == {i \in Intents : get_required_fields(i) = <<"query">>}

\* utterances and the trimmed text after the first prefix, in the order
\* "search for", "look up", "find", "google", that occurs in them; "" when no
\* prefix is followed by text
QueryCases ==
  {<<"search for cats", "cats">>, <<"look up  dogs ", "dogs">>,
   <<"find my keys", "my keys">>, <<"google tla", "tla">>,
   <<"look up a find b", "a find b">>, <<"google how to search for x", "x">>,
   <<"find ", "">>, <<"cats and dogs", "">>}

\* C23: for every intent whose required slot is query (WEB_SEARCH,
\* MEMORY_LOOKUP, CALENDAR_SEARCH) extract_fields sets query to the trimmed
\* text after the first prefix pattern that matches, and leaves it unset
\* when none matches.
C23_QueryForSearchIntents ==
  [][(call'.op = "extract_fields" /\ call'.intent \in QueryIntents) =>
       \A c \in QueryCases :
         heard' = c[1] =>
           IF c[2] = "" THEN ~Has(result'.value, "query")
           ELSE Has(result'.value, "query") /\ Get(result'.value, "query") = c[2]]_vars

\* C24: update_task and complete_task called with an id that is not in the
\* store return False, without raising, and leave every task and the
\* session context as they were.
C24_UnknownIdReturnsFalse ==
  [][(/\ call'.op \in {"update_task", "complete_task"}
      /\ \A i \in DOMAIN active_tasks : active_tasks[i].id # call'.task_id)
       => /\ result' = Returned("bool", FALSE)
          /\ active_tasks' = active_tasks
          /\ session_context' = session_context]_vars

\* update_task("t2", ...) answered False while the store holds t1 alone and
\* the session context holds a value
C24_Witness ==
  /\ call = StoreCall("update_task", "t2", "")
  /\ result = Returned("bool", FALSE)
  /\ Len(active_tasks) = 1 /\ active_tasks[1].id = "t1"
  /\ session_context # EmptyDict

\* what update_task(task_id, status, **data) on the record at index i of the
\* store is claimed to leave
Updated(i, status, data) ==
  LET old == active_tasks[i]
      new == active_tasks'[i]
  IN  /\ result' = Returned("bool", TRUE)
      /\ Len(active_tasks') = Len(active_tasks)
      /\ \A j \in DOMAIN active_tasks : j # i => active_tasks'[j] = active_tasks[j]
      /\ new.id = old.id /\ new.task_type = old.task_type /\ new.created_at = old.created_at
      /\ new.status = (IF status # "" THEN status ELSE old.status)
      /\ new.updated_at = now
      /\ Keys(new.data) = Keys(old.data) \cup Keys(data)
      /\ \A k \in Keys(data) : Get(new.data, k) = Get(data, k)
      /\ \A k \in Keys(old.data) \ Keys(data) : Get(new.data, k) = Get(old.data, k)

\* C25: update_task on a known id returns True, merges the fields into the
\* data of that task (a field the task holds is overwritten, the others are
\* kept), changes the status only when one is given, refreshes updated_at on
\* every call, and modifies no other task; updated_at >= created_at holds
\* for every task.
C25_UpdateMergesAndStamps ==
  [][/\ call'.op = "update_task" =>
          \A id \in TaskIds, status \in UpdateStatus, data \in UpdateData :
            (UpdateTask(id, status, data) /\ Known(active_tasks, id))
              => Updated(Index(active_tasks, id), status, data)
     /\ \A i \in DOMAIN active_tasks' :
          active_tasks'[i].updated_at >= active_tasks'[i].created_at]_vars

\* update_task("t1") with no status and no field, two ticks after t1 was
\* created: the record is as created but for updated_at, and t2 holds what
\* its own update left
C25_Witness ==
  /\ call = StoreCall("update_task", "t1", "")
  /\ result = Returned("bool", TRUE)
  /\ now = 2
  /\ Len(active_tasks) = 2
  /\ active_tasks[1] = [TaskState("t1", "email_send", << <<"subject", "hi">> >>, 0)
                          EXCEPT !.updated_at = 2]
  /\ active_tasks[2].id = "t2"
  /\ active_tasks[2].data = << <<"subject", "re">>, <<"to", "a@b.c">> >>
  /\ active_tasks[2].status = "in_progress"

\* C26: get_active_tasks returns exactly the tasks of the store whose status
\* is pending or in_progress, and of the given type when one is passed, each
\* once and under its id; it returns no completed or failed task and leaves
\* the store as it was.
C26_ActiveTasksExactly ==
  [][call'.op = "get_active_tasks" =>
       LET wanted == {i \in DOMAIN active_tasks :
                        /\ active_tasks[i].status \in {"pending", "in_progress"}
                        /\ call'.task_type # "" => active_tasks[i].task_type = call'.task_type}
           got == result'.value
       IN  /\ {got[n] : n \in DOMAIN got} = {active_tasks[i] : i \in wanted}
           /\ Len(got) = Cardinality(wanted)
           /\ \A n \in DOMAIN got : got[n].status \notin {"completed", "failed"}
           /\ active_tasks' = active_tasks]_vars

\* get_active_tasks("web_search") returned the pending web_search task t2
\* alone while the store also holds the pending email_send task t1
C26_Witness ==
  /\ call = StoreCall("get_active_tasks", "", "web_search")
  /\ Len(active_tasks) = 2
  /\ active_tasks[1].id = "t1" /\ active_tasks[1].task_type = "email_send"
  /\ active_tasks[1].status = "pending"
  /\ active_tasks[2].id = "t2" /\ active_tasks[2].task_type = "web_search"
  /\ active_tasks[2].status = "in_progress"
  /\ result.value = <<active_tasks[2]>>

\* C27: clear_completed_tasks removes every completed or failed task and
\* nothing else: afterwards the store holds no such task, every pending or
\* in_progress task is still there, unchanged, and the session context is
\* unchanged; a task that complete_task_with_response has just completed is
\* removed and a following get_active_tasks() does not return it.
C27_SweepRemovesTerminalOnly ==
  [][call'.op = "clear_completed_tasks" =>
       LET kept == {i \in DOMAIN active_tasks :
                      active_tasks[i].status \in {"pending", "in_progress"}}
       IN  /\ \A n \in DOMAIN active_tasks' :
                active_tasks'[n].status \notin {"completed", "failed"}
           /\ {active_tasks'[n] : n \in DOMAIN active_tasks'} = {active_tasks[i] : i \in kept}
           /\ Len(active_tasks') = Cardinality(kept)
           /\ session_context' = session_context
           /\ (call.op = "complete_task_with_response" /\ result.is_valid) =>
                /\ Len(active_tasks') < Len(active_tasks)
                /\ \A i \in DOMAIN active_tasks : active_tasks[i].status = "completed" =>
                     active_tasks[i].id \notin Ids(get_active_tasks(active_tasks', ""))]_vars

\* after a sweep the store holds the in_progress task t2 alone, with the
\* data it was created with, and the session context still holds its value
C27_Witness ==
  /\ call = Call("clear_completed_tasks", "")
  /\ session_context = << <<"user", "sir">> >>
  /\ active_tasks =
       <<[TaskState("t2", "email_send", << <<"subject", "hi">> >>, 0) EXCEPT !.status = "in_progress"]>>

\* C28: the executor is invoked only in a pass of the loop whose
\* ValidationResult has is_valid = True; when validate_and_extract or
\* complete_task_with_response returns is_valid = False, the clarification
\* is spoken and the executor is not invoked for that command.
C28_ExecutorOnlyWhenValid ==
  [][call'.op \in {"turn", "skip", "break"} =>
       /\ result'.invoked =>
            result'.validation.kind = "ValidationResult" /\ result'.validation.is_valid
       /\ (result'.validation.kind = "ValidationResult" /\ ~result'.validation.is_valid) =>
            /\ ~result'.invoked
            /\ result'.clarification # None
            /\ result'.clarification = result'.validation.clarification]_vars

\* "tomorrow at 3pm" is a new command, classified CALENDAR_CREATE, that
\* lacks a title: the clarification is spoken, the executor is not invoked
C28_Witness ==
  /\ call = Call("turn", "")
  /\ heard = "tomorrow at 3pm"
  /\ Commands[heard][1] = "CALENDAR_CREATE"
  /\ ~result.validation.is_valid
  /\ ~result.invoked
  /\ result.clarification = Some("What should I call this event? I have: time: 15:00, date: 2024-03-09")

\* the step is validate_and_extract creating a task under the id of the
\* record at index i of the store: the record stored under that id
\* afterwards is a new pending task, not the old one
CreatedOver(i, new) ==
  /\ call'.op = "validate_and_extract"
  /\ ~result'.is_valid
  /\ get_active_tasks(active_tasks, value(call'.intent)) = <<>>
  /\ active_tasks[i].id = NewTaskId(active_tasks, call'.intent)
  /\ new = TaskState(active_tasks[i].id, value(call'.intent), result'.extracted_fields, now)

\* C29: under validate_and_extract, complete_task_with_response and
\* clear_completed_tasks every task in the store is pending or completed, no
\* task is ever failed, and the status of a task changes only from pending
\* to completed.
C29_PendingToCompletedOnly ==
  [][/\ \A j \in DOMAIN active_tasks' : active_tasks'[j].status \in {"pending", "completed"}
     /\ \A i \in DOMAIN active_tasks, j \in DOMAIN active_tasks' :
          active_tasks'[j].id = active_tasks[i].id =>
            \/ active_tasks'[j].status = active_tasks[i].status
            \/ active_tasks[i].status = "pending" /\ active_tasks'[j].status = "completed"
            \/ CreatedOver(i, active_tasks'[j])]_vars

\* the follow-up "search for cats" has completed the pending web_search task
C29_Witness ==
  /\ call = Call("complete_task_with_response", "")
  /\ heard = "search for cats"
  /\ result.is_valid
  /\ Len(active_tasks) = 1
  /\ active_tasks[1].task_type = "web_search"
  /\ active_tasks[1].status = "completed"
  /\ active_tasks[1].data = << <<"query", "cats">> >>

\* the step is validate_and_extract creating a task: the result is invalid
\* and the store held no active task of the intent
Creating ==
  /\ call'.op = "validate_and_extract"
  /\ ~result'.is_valid
  /\ \A i \in DOMAIN active_tasks :
       ~(active_tasks[i].task_type = value(call'.intent) /\ active_tasks[i].status \in ActiveStatus)

\* the id <intent value>_<n> for a store of n records
NumberedId(intent, n) ==
  value(intent) \o "_" \o (CASE n = 0 -> "0" [] n = 1 -> "1" [] n = 2 -> "2" [] n = 3 -> "3")

\* C30: validate_and_extract names a new task <intent value>_<n>, n being
\* the number of records in the store whatever their status; when a record
\* of the store has that id already, the new pending task takes its place
\* (the store keeps its length and the old record is lost), and otherwise the
\* new task is added at the end.
C30_IdFromRecordCount ==
  [][Creating =>
       LET id == NumberedId(call'.intent, Len(active_tasks))
           task == [id |-> id, task_type |-> value(call'.intent), status |-> "pending",
                    data |-> result'.extracted_fields, created_at |-> now, updated_at |-> now]
           same == {i \in DOMAIN active_tasks : active_tasks[i].id = id}
       IN  IF same = {}
             THEN active_tasks' = Append(active_tasks, task)
             ELSE /\ Len(active_tasks') = Len(active_tasks)
                  /\ \A i \in DOMAIN active_tasks :
                       active_tasks'[i] = (IF i \in same THEN task ELSE active_tasks[i])]_vars

\* after two tasks, a sweep and a follow-up the store holds the completed
\* record calendar_create_1 alone: the id that validate_and_extract gives
\* the next CALENDAR_CREATE task is the id of that record
C30_Witness ==
  /\ call = Call("complete_task_with_response", "")
  /\ Len(active_tasks) = 1
  /\ active_tasks[1].id = "calendar_create_1"
  /\ active_tasks[1].status = "completed"
  /\ NumberedId("CALENDAR_CREATE", Len(active_tasks)) = active_tasks[1].id

\* the utterances "<verb> <free text> <marker>" that hold no known activity
\* noun and no "going to", with their free text
GenericCases ==
  {<<GenericText(Verbs[v], free, marker), free>> :
     v \in DOMAIN Verbs, free \in FreeTexts, marker \in Markers}

\* C31: for a CALENDAR_CREATE utterance "<schedule|create|add> <free text>
\* at|for|on ..." with no known activity noun and no "going to",
\* extract_fields sets title to the free text between the verb and the
\* marker, whatever letters the free text holds.
C31_GenericTitleAnyLetters ==
  [][(call'.op = "extract_fields" /\ call'.intent = "CALENDAR_CREATE") =>
       \A c \in GenericCases :
         (heard' = c[1] /\ NounsIn[heard'] = {} /\ TitleRules[heard'][2] = <<>>) =>
           /\ Has(result'.value, "title")
           /\ Get(result'.value, "title") = c[2]]_vars

\* the utterances holding one time of each form, with the parts of the H:MM
\* occurrence
BothTimeCases ==
  {<<ColonText(c) \o " or " \o HourText(h), c, h>> : c \in ColonTimes, h \in HourTimes}
  \cup {<<HourText(h) \o " or " \o ColonText(c), c, h>> : c \in ColonTimes, h \in HourTimes}

\* C37: when an utterance holds both an H:MM time and an H am/pm time,
\* extract_fields for CALENDAR_CREATE takes the time slot from the H:MM
\* occurrence, whichever of the two comes first in the text, and ignores
\* the H am/pm occurrence.
C37_ColonTimeBeforeHourTime ==
  [][(call'.op = "extract_fields" /\ call'.intent = "CALENDAR_CREATE") =>
       \A c \in BothTimeCases :
         heard' = c[1] =>
           /\ Has(result'.value, "time")
           /\ Get(result'.value, "time") = NormalTime(c[2][1], c[2][2], strip(c[2][3]))
           /\ Get(result'.value, "time") # NormalTime(c[3][1], "", strip(c[3][2]))]_vars

\* "3pm or 4:30" was given for CALENDAR_CREATE: the H am/pm time comes first
\* in the text and the time is 04:30
C37_Witness ==
  /\ call = Call("extract_fields", "CALENDAR_CREATE")
  /\ heard = "3pm or 4:30"
  /\ <<heard, <<"4", "30", "">>, <<"3", "pm">> >> \in BothTimeCases
  /\ result.value = << <<"time", "04:30">> >>

\* validate_and_extract was called with Intent.TERMINAL
TerminalCall == call'.op = "validate_and_extract" /\ call'.intent = "TERMINAL"

\* the passthrough and its verdict: command is the utterance as given; a
\* non-empty utterance is valid and leaves the store as it was, the empty
\* one is invalid with command missing
Passthrough ==
  /\ result'.extracted_fields = << <<"command", heard'>> >>
  /\ IF heard' # ""
       THEN /\ result'.is_valid
            /\ result'.missing_fields = <<>>
            /\ active_tasks' = active_tasks
       ELSE /\ ~result'.is_valid
            /\ result'.missing_fields = <<"command">>

\* the store gained a pending terminal task made by this call
TerminalTaskCreated ==
  \E j \in DOMAIN active_tasks' :
    /\ active_tasks'[j].task_type = "terminal"
    /\ active_tasks'[j].status = "pending"
    /\ active_tasks'[j].created_at = now
    /\ \A i \in DOMAIN active_tasks :
         active_tasks[i].id = active_tasks'[j].id => active_tasks[i].status \notin ActiveStatus

\* C32 as stated: validate_and_extract with TERMINAL copies the utterance,
\* case preserved, into command; every non-empty utterance is valid and
\* creates no task; the empty utterance is invalid with missing_fields =
\* [command] and a pending terminal task is created.
C32_EmptyCommandCreatesTask ==
  [][TerminalCall => (Passthrough /\ (heard' = "" => TerminalTaskCreated))]_vars

\* C32: validate_and_extract with TERMINAL copies the utterance, case
\* preserved, into command; every non-empty utterance is valid and creates
\* no task; the empty utterance is invalid with missing_fields = [command],
\* and a pending terminal task is created when no terminal task is active,
\* while an active one stays as the only active terminal task, pending and
\* with an empty command, and no task is created.
C32_TerminalPassthrough ==
  [][TerminalCall =>
       /\ Passthrough
       /\ heard' = "" =>
            IF ActiveOf(active_tasks, "terminal") = {}
              THEN TerminalTaskCreated
              ELSE /\ ActiveOf(active_tasks', "terminal") = ActiveOf(active_tasks, "terminal")
                   /\ Len(active_tasks') = Len(active_tasks)
                   /\ \A j \in DOMAIN active_tasks :
                        /\ active_tasks'[j].id = active_tasks[j].id
                        /\ active_tasks'[j].status = active_tasks[j].status
                        /\ active_tasks'[j].created_at = active_tasks[j].created_at
                        /\ AsMap(active_tasks'[j].data) = AsMap(active_tasks[j].data)]_vars

\* "List Files On Desktop" was given with TERMINAL while a terminal task
\* made by the empty utterance is pending: valid, the command as spoken
C32_Witness ==
  /\ call = Call("validate_and_extract", "TERMINAL")
  /\ heard = "List Files On Desktop"
  /\ result.is_valid
  /\ result.extracted_fields = << <<"command", "List Files On Desktop">> >>
  /\ \E j \in DOMAIN active_tasks :
       /\ active_tasks[j].task_type = "terminal"
       /\ active_tasks[j].status = "pending"
       /\ active_tasks[j].data = << <<"command", "">> >>

\* the template questions, by intent and slot
Questions ==
  [i \in ClarifyIntents |->
     CASE i = "EMAIL_SEND" ->
            [to |-> "Who should I send this email to?",
             subject |-> "What should the subject line be?",
             content |-> "What should the email say?"]
       [] i = "CALENDAR_CREATE" ->
            [title |-> "What should I call this event?",
             date |-> "What date is this for? (e.g., tomorrow, today, 2024-03-08)",
             time |-> "What time should this be scheduled for? (e.g., 3:00 PM, 15:00)"]
       [] i = "WEB_SEARCH" -> [query |-> "What would you like me to search for?"]
       [] i = "TERMINAL" -> [command |-> "What command should I run?"]
       [] OTHER -> <<>>]

\* the question asked for a slot when several are missing
Question(intent, slot) ==
  IF slot \in DOMAIN Questions[intent] THEN Questions[intent][slot]
  ELSE "What is the " \o slot \o "?"

RECURSIVE AllQuestions(_, _)
\* the questions of the slots, in their order, with And between them
AllQuestions(intent, slots) ==
  IF Len(slots) = 1 THEN Question(intent, slots[1])
  ELSE Question(intent, slots[1]) \o " And " \o AllQuestions(intent, Tail(slots))

RECURSIVE Listing(_)
\* k: v of every field, in the order of the mapping, with commas between them
Listing(fields) ==
  IF Len(fields) = 1 THEN fields[1][1] \o ": " \o fields[1][2]
  ELSE fields[1][1] \o ": " \o fields[1][2] \o ", " \o Listing(Tail(fields))

\* C33: with exactly one slot missing the clarification is the template
\* question of the slot for the intent ("I need to know the <slot>." when
\* the intent has no template for it), followed by " I have: k: v, ..." over
\* every field of extracted_fields when there is at least one and by nothing
\* otherwise; with two or more slots missing it is "I need a bit more
\* information: " and the questions of all missing slots in missing_fields
\* order joined with " And ", the question of a slot without a template
\* being "What is the <slot>?", and the known fields are not listed.
C33_ClarificationSynthesis ==
  [][call'.op = "_generate_clarification" =>
       LET intent == call'.intent
           missing == result'.missing_fields
           known == result'.extracted_fields
           base == IF missing[1] \in DOMAIN Questions[intent]
                     THEN Questions[intent][missing[1]]
                     ELSE "I need to know the " \o missing[1] \o "."
       IN  IF Len(missing) = 1
             THEN result'.value = (IF known = <<>> THEN base
                                   ELSE base \o " I have: " \o Listing(known))
             ELSE result'.value =
                    "I need a bit more information: " \o AllQuestions(intent, missing)]_vars

\* subject is missing of an email and to is known: the question of subject
\* and the known recipient
C33_Witness ==
  /\ call = Call("_generate_clarification", "EMAIL_SEND")
  /\ result.missing_fields = <<"subject">>
  /\ result.extracted_fields = << <<"to", "john@example.com">> >>
  /\ result.value = "What should the subject line be? I have: to: john@example.com"

\* C34: from an empty store, whatever validate_and_extract,
\* complete_task_with_response and clear_completed_tasks calls are made, no
\* two records of the store with status pending or in_progress have the
\* same task_type.
C34_OneActiveTaskPerType ==
  \A i, j \in DOMAIN active_tasks :
    (/\ active_tasks[i].status \in {"pending", "in_progress"}
     /\ active_tasks[j].status \in {"pending", "in_progress"}
     /\ active_tasks[i].task_type = active_tasks[j].task_type) => i = j

\* validate_and_extract was invalid for a type whose pending task it found
\* and updated after the clock advanced, while a task of another type is
\* active too
C34_Witness ==
  /\ call.op = "validate_and_extract"
  /\ ~result.is_valid
  /\ Len(active_tasks) = 2
  /\ active_tasks[1].status = "pending" /\ active_tasks[2].status = "pending"
  /\ active_tasks[1].task_type # active_tasks[2].task_type
  /\ \E j \in DOMAIN active_tasks :
       /\ active_tasks[j].task_type = value(call.intent)
       /\ active_tasks[j].created_at < active_tasks[j].updated_at
       /\ active_tasks[j].updated_at = now

\* the pass answered the task at index i of the store: no record is added or
\* removed and no other record changes; the validation obtained is about
\* that task, it holds the task's data, is valid exactly when the task is
\* completed, and the executor runs exactly then; while the task stays
\* active its clarification is spoken
Answered(i) ==
  /\ Len(active_tasks') = Len(active_tasks)
  /\ \A j \in DOMAIN active_tasks : j # i => active_tasks'[j] = active_tasks[j]
  /\ active_tasks'[i].id = active_tasks[i].id
  /\ active_tasks'[i].task_type = active_tasks[i].task_type
  /\ active_tasks'[i].created_at = active_tasks[i].created_at
  /\ result'.validation.kind = "ValidationResult"
  /\ AsMap(result'.validation.extracted_fields) = AsMap(active_tasks'[i].data)
  /\ \A k \in Keys(active_tasks[i].data) : Has(active_tasks'[i].data, k)
  /\ Range(result'.validation.missing_fields) \subseteq
       Range(get_required_fields(IntentOf(active_tasks[i].task_type)))
  /\ IF result'.validation.is_valid
       THEN active_tasks'[i].status = "completed" /\ result'.invoked
       ELSE /\ active_tasks'[i].status = active_tasks[i].status
            /\ ~result'.invoked
            /\ result'.clarification # None

\* the pass classified the command and gave it to validate_and_extract
Classed ==
  \E out \in {Validate(active_tasks, heard', Commands[heard'][1], now)} :
    /\ active_tasks' = out.store
    /\ result'.validation = out.result

\* C35: in a pass of the loop on an utterance that is not empty and does not
\* hold "shut down", while a task is active the utterance is the answer to
\* the active task created last and is not classified or validated as a
\* command: no task is created, and the executor runs only if that task is
\* completed by the answer; a command is classified and validated only in a
\* pass that starts with no active task, so a task that stays pending keeps
\* every later command from being run.
C35_ActiveTaskTakesUtterance ==
  [][call'.op = "turn" =>
       IF ActiveAny(active_tasks) # {}
         THEN \E i \in ActiveAny(active_tasks) :
                /\ \A j \in ActiveAny(active_tasks) :
                     active_tasks[j].created_at <= active_tasks[i].created_at
                /\ Answered(i)
         ELSE Classed]_vars

\* "what's the weather", a command without required slots, was said while
\* the calendar task of "tomorrow at 3pm" was pending: the task is asked
\* about again and the executor does not run
C35_Witness ==
  /\ call = Call("turn", "")
  /\ heard = "what's the weather"
  /\ Commands[heard][1] = "WEATHER"
  /\ Len(active_tasks) = 1
  /\ active_tasks[1].task_type = "calendar_create"
  /\ active_tasks[1].status = "pending"
  /\ ~result.validation.is_valid
  /\ result.validation.missing_fields = <<"title">>
  /\ ~result.invoked

\* C36: in conversation mode, a pass of the loop on a command heard more
\* than CONVERSATION_TIMEOUT seconds after the last interaction leaves
\* conversation mode: conversation_mode is false after it.
C36_TimeoutLeavesConversation ==
  [][(/\ conversation_mode
      /\ call'.op = "turn"
      /\ clock' - last_interaction_time[1] > CONVERSATION_TIMEOUT)
       => ~conversation_mode']_vars

\* the values of the members of Intent
IntentValues ==
  {"calendar_create", "calendar_check", "calendar_search", "email_send", "email_read",
   "web_search", "memory_lookup", "app_launch", "terminal", "weather", "general"}

\* the active task complete_task_with_response answers: the first record of
\* the store among the active ones created last
MostRecent(i) ==
  /\ i \in ActiveAny(active_tasks)
  /\ \A j \in ActiveAny(active_tasks) :
       \/ active_tasks[j].created_at < active_tasks[i].created_at
       \/ active_tasks[j].created_at = active_tasks[i].created_at /\ i <= j

\* C38: create_task stores a pending task under any task_type string; when
\* the most recent active task has a task_type that is not the value of an
\* Intent, complete_task_with_response raises ValueError, returning neither
\* a ValidationResult nor None, and leaves the store as it was; it raises in
\* no other case.
C38_UnknownTypeRaises ==
  [][/\ call'.op = "create_task" =>
          \E j \in DOMAIN active_tasks' :
            /\ active_tasks'[j].id = call'.task_id
            /\ active_tasks'[j].task_type = call'.task_type
            /\ active_tasks'[j].status = "pending"
     /\ call'.op = "complete_task_with_response" =>
          /\ (result'.kind = "ValueError") <=>
               \E i \in DOMAIN active_tasks :
                 MostRecent(i) /\ active_tasks[i].task_type \notin IntentValues
          /\ result'.kind = "ValueError" => active_tasks' = active_tasks]_vars

\* "search for cats" was said while a web_search task, which it would
\* complete, and a later task of type reminder were pending: ValueError, and
\* both tasks are as they were
C38_Witness ==
  /\ call = Call("complete_task_with_response", "")
  /\ heard = "search for cats"
  /\ result.kind = "ValueError"
  /\ Len(active_tasks) = 2
  /\ \E i, j \in DOMAIN active_tasks :
       /\ active_tasks[i].task_type = "web_search"
       /\ active_tasks[i].status = "pending"
       /\ active_tasks[i].data = EmptyDict
       /\ active_tasks[j].task_type = "reminder"
       /\ active_tasks[j].status = "pending"
       /\ active_tasks[i].created_at < active_tasks[j].created_at

====
